---- MODULE Spec2Model ----
(***************************************************************************)
(* A model of pplpy's linear-algebra layer: Variable, Variables_Set,       *)
(* Linear_Expression (linear_algebra.pyx) and Constraint,                  *)
(* Constraint_System, Constraint_System_iterator (constraint.pyx).         *)
(*                                                                         *)
(* Three specifications share the variables:                               *)
(*   SpecCall  one API call on Python values (constructors, operators,     *)
(*             comparisons), the call and its outcome recorded in ret;     *)
(*   Spec      a Python session: reference-counted wrapper objects, each   *)
(*             holding a pointer to a native PPL object;                   *)
(*   SpecCS    one Constraint_System under insert / clear / len / [k].     *)
(***************************************************************************)
EXTENDS Integers, Sequences, FiniteSets, TLC

VARIABLES
    ret,      \* the last call: what was called, on what, and its outcome
    heap,     \* object id -> wrapper object (class, thisptr, references)
    nat,      \* native address -> native PPL object
    cs,       \* the native Constraint_System of SpecCS
    hist      \* history: the constraints inserted since creation / last clear

vars == <<ret, heap, nat, cs, hist>>

(***************************************************************************)
(* Bounds of the model.                                                    *)
(***************************************************************************)
MaxDim == 2      \* variables are x0 .. x(MaxDim-1)
MaxObj == 2      \* wrapper objects alive at once in Spec
MaxRows == 3     \* constraints in the system of SpecCS
MaxRefs == 2     \* references held to one object in Spec

Max(a, b) == IF a >= b THEN a ELSE b
Min(a, b) == IF a <= b THEN a ELSE b

(***************************************************************************)
(* Native PPL linear expressions: the coefficients of x0 .. x(dim-1) and   *)
(* the inhomogeneous term.  Arithmetic is exact (GMP integers).            *)
(***************************************************************************)
AsSeq(f) == IF DOMAIN f = {} THEN <<>> ELSE f
LinExpr(co, b) == [co |-> AsSeq(co), b |-> b]

space_dimension(e) == Len(e.co)
coefficient(e, i) == IF i < Len(e.co) THEN e.co[i + 1] ELSE 0
inhomogeneous_term(e) == e.b

PPL_Linear_Expression == LinExpr(<<>>, 0)
PPL_Linear_Expression_Variable_shifted(i) ==
    LinExpr([k \in 1..(i + 2) |-> IF k = i + 2 THEN 1 ELSE 0], 0)

PPL_Linear_Expression_Variable(i) ==
    LinExpr([k \in 1..(i + 1) |-> IF k = i + 1 THEN 1 ELSE 0], 0)
PPL_Linear_Expression_Coefficient(n) == LinExpr(<<>>, n)

RECURSIVE Trimmed(_)
Trimmed(co) ==
    IF Len(co) > 0 /\ co[Len(co)] = 0 THEN Trimmed(SubSeq(co, 1, Len(co) - 1)) ELSE co
PPL_add_trimmed(a, b) ==
    LinExpr(Trimmed([k \in 1..Max(space_dimension(a), space_dimension(b)) |->
                        coefficient(a, k - 1) + coefficient(b, k - 1)]),
            a.b + b.b)

PPL_add(a, b) ==
    LinExpr([k \in 1..Max(space_dimension(a), space_dimension(b)) |->
                coefficient(a, k - 1) + coefficient(b, k - 1)],
            a.b + b.b)
PPL_sub_unextended(a, b) ==
    LinExpr([k \in 1..space_dimension(a) |->
                coefficient(a, k - 1) - coefficient(b, k - 1)],
            a.b - b.b)

PPL_sub(a, b) ==
    LinExpr([k \in 1..Max(space_dimension(a), space_dimension(b)) |->
                coefficient(a, k - 1) - coefficient(b, k - 1)],
            a.b - b.b)
PPL_mul_collapsing(a, c) ==
    IF c = 0 THEN LinExpr(<<>>, 0)
    ELSE LinExpr([k \in 1..space_dimension(a) |-> coefficient(a, k - 1) * c], a.b * c)

PPL_mul(a, c) ==
    LinExpr([k \in 1..space_dimension(a) |-> coefficient(a, k - 1) * c],
            a.b * c)
PPL_set_space_dimension_growing(e, n) ==
    LinExpr([k \in 1..Max(n, space_dimension(e)) |-> coefficient(e, k - 1)], e.b)

PPL_set_space_dimension(e, n) ==
    LinExpr([k \in 1..n |-> coefficient(e, k - 1)], e.b)

is_zero_of_dimension_0(e) == e.b = 0 /\ Len(e.co) = 0

is_zero(e) == e.b = 0 /\ \A k \in 1..Len(e.co) : e.co[k] = 0
all_homogeneous_terms_are_zero(e) == \A k \in 1..Len(e.co) : e.co[k] = 0

(***************************************************************************)
(* Python values.  One record shape for all of them:                       *)
(*   t  the type; n, d  a number n/d (d = 0: a string that is no number);  *)
(*   e  a linear expression; k  a constraint kind or an exception name;    *)
(*   s  the items of a tuple.                                              *)
(***************************************************************************)
PV(t, n, d, e, k, s) == [t |-> t, n |-> n, d |-> d, e |-> e, k |-> k, s |-> s]

PyInt(n) == PV("int", n, 1, PPL_Linear_Expression, "", <<>>)
PyBool(b) == PV("bool", IF b THEN 1 ELSE 0, 1, PPL_Linear_Expression, "", <<>>)
PyFloat(n, d) == PV("float", n, d, PPL_Linear_Expression, "", <<>>)
PyMpq(n, d) == PV("mpq", n, d, PPL_Linear_Expression, "", <<>>)
\* a string that is a text (a rendering); the text is kept in k
PyText(text) == PV("str", 0, 0, PPL_Linear_Expression, text, <<>>)

PyStr(n, d) == PV("str", n, d, PPL_Linear_Expression, "", <<>>)
PyNone == PV("NoneType", 0, 0, PPL_Linear_Expression, "", <<>>)
PyTuple(s) == PV("tuple", 0, 0, PPL_Linear_Expression, "", s)
PyVariable(i) == PV("Variable", i, 1, PPL_Linear_Expression, "", <<>>)
PyLinExpr(e) == PV("Linear_Expression", 0, 1, e, "", <<>>)
PyConstraint(e, k) == PV("Constraint", 0, 1, e, k, <<>>)
PyExc(name) == PV("exc", 0, 0, PPL_Linear_Expression, name, <<>>)

IsExc(v) == v.t = "exc"
IsExprType(v) == v.t \in {"Variable", "Linear_Expression"}
IsNumber(v) == v.t \in {"int", "bool", "float", "mpq"}

\* int(n/d), truncating toward zero as mpz() and __long__ do
Trunc(n, d) == IF n >= 0 THEN n \div d ELSE -((-n) \div d)

(***************************************************************************)
(* The builds.  part_000 converts coefficients through gmpy2;              *)
(* ppl/linear_algebra.pyx converts them through __long__, under Python 2   *)
(* (float has __long__) or Python 3 (nothing has).                         *)
(***************************************************************************)
Builds == {"gmpy2", "pylong_py2", "pylong_py3"}

\* mpz(c) of gmpy2: the integer, or the exception it raises
mpz(c) ==
    CASE c.t \in {"int", "bool"} -> PyInt(c.n)
      [] c.t \in {"float", "mpq"} -> PyInt(Trunc(c.n, c.d))
      [] c.t = "str" -> IF c.d = 1 THEN PyInt(c.n) ELSE PyExc("ValueError")
      [] OTHER -> PyExc("TypeError")

\* part_000: coeff = mpz(c); not a str and coeff != c raises ValueError
PPL_Coefficient_from_pyobject_gmpy2(c) ==
    LET coeff == mpz(c) IN
    IF IsExc(coeff) THEN coeff
    ELSE IF c.t # "str" /\ coeff.n * c.d # c.n THEN PyExc("ValueError")
    ELSE coeff

\* ppl/linear_algebra.pyx: an exact int is taken as it is; anything else goes
\* through c.__long__(), which truncates.  Without __long__ the ValueError is
\* raised in a cdef function declared without an except clause: it is written
\* out and dropped, and the default-constructed coefficient 0 is returned.
has__long__(build, c) ==
    \/ c.t \in {"int", "bool"}
    \/ build = "pylong_py2" /\ c.t = "float"
PPL_Coefficient_from_pyobject_pylong(build, c) ==
    IF c.t = "int" THEN c
    ELSE IF has__long__(build, c) THEN PyInt(Trunc(c.n, c.d))
    ELSE PyInt(0)

PPL_Coefficient_from_pyobject(build, c) ==
    IF build = "gmpy2" THEN PPL_Coefficient_from_pyobject_gmpy2(c)
    ELSE PPL_Coefficient_from_pyobject_pylong(build, c)

(***************************************************************************)
(* Linear_Expression and Variable: constructor and operators.  Each takes  *)
(* Python values and gives the value returned or the exception raised.     *)
(***************************************************************************)
\* Variable(i): the argument is converted to the unsigned PPL_dimension_type,
\* which refuses a negative integer
Variable__cinit__(i) ==
    IF i.t \notin {"int", "bool"} THEN PyExc("TypeError")
    ELSE IF i.n < 0 THEN PyExc("OverflowError")
    ELSE PyVariable(i.n)
Variable_id(self) == self.n
Variable_space_dimension(self) == self.n + 1

\* the end of __cinit__, which a call with one argument goes straight to:
\* a Variable, a Linear_Expression (the copy constructor), or a coefficient
Linear_Expression_from(build, arg) ==
    IF arg.t = "Variable" THEN PyLinExpr(PPL_Linear_Expression_Variable(arg.n))
    ELSE IF arg.t = "Linear_Expression" THEN PyLinExpr(arg.e)
    ELSE LET cc == PPL_Coefficient_from_pyobject(build, arg)
         IN  IF IsExc(cc) THEN cc
             ELSE PyLinExpr(PPL_Linear_Expression_Coefficient(cc.n))

Linear_Expression__mul__(build, self, other) ==
    LET e == IF self.t = "Linear_Expression" THEN self ELSE other
        c == IF self.t = "Linear_Expression" THEN other ELSE self
        cc == PPL_Coefficient_from_pyobject(build, c)
    IN  IF IsExc(cc) THEN cc ELSE PyLinExpr(PPL_mul(e.e, cc.n))

Linear_Expression__add__(build, self, other) ==
    LET lhs == IF self.t = "Linear_Expression" THEN self
               ELSE Linear_Expression_from(build, self)
        rhs == IF other.t = "Linear_Expression" THEN other
               ELSE Linear_Expression_from(build, other)
    IN  IF IsExc(lhs) THEN lhs
        ELSE IF IsExc(rhs) THEN rhs
        ELSE PyLinExpr(PPL_add(lhs.e, rhs.e))

Linear_Expression__sub__(build, self, other) ==
    LET lhs == IF self.t = "Linear_Expression" THEN self
               ELSE Linear_Expression_from(build, self)
        rhs == IF other.t = "Linear_Expression" THEN other
               ELSE Linear_Expression_from(build, other)
    IN  IF IsExc(lhs) THEN lhs
        ELSE IF IsExc(rhs) THEN rhs
        ELSE PyLinExpr(PPL_sub(lhs.e, rhs.e))

Linear_Expression__pos__(build, self) == self
Linear_Expression__neg__(build, self) ==
    Linear_Expression__mul__(build, self, PyInt(-1))

Variable__mul__(build, self, other) ==
    IF self.t = "Variable"
    THEN Linear_Expression__mul__(build, Linear_Expression_from(build, self), other)
    ELSE LET e == Linear_Expression_from(build, other)
         IN  IF IsExc(e) THEN e ELSE Linear_Expression__mul__(build, e, self)

\* for i in range(len(a)): ex += Variable(i) * a[i]     (i counts from 1 here)
RECURSIVE cinit_loop(_, _, _, _)
cinit_loop(build, a, i, ex) ==
    IF i > Len(a) THEN ex
    ELSE CHOOSE r \in UNION {
             IF IsExc(term) THEN {term}
             ELSE { cinit_loop(build, a, i + 1, sum)
                    : sum \in {Linear_Expression__add__(build, so_far, term)} }
             : term \in {Variable__mul__(build, PyVariable(i - 1), a[i])},
               so_far \in {ex} } : TRUE

Linear_Expression__cinit__(build, args) ==
    IF Len(args) > 2 THEN PyExc("ValueError")
    ELSE IF Len(args) = 0 THEN PyLinExpr(PPL_Linear_Expression)
    ELSE IF Len(args) = 1 THEN Linear_Expression_from(build, args[1])
    ELSE IF args[1].t # "tuple" THEN PyExc("TypeError")
    ELSE CHOOSE r \in UNION {
             IF IsExc(ex) THEN {ex}
             ELSE { IF IsExc(arg) THEN arg ELSE Linear_Expression_from(build, arg)
                    : arg \in {Linear_Expression__add__(build, ex, args[2])} }
             : ex \in {cinit_loop(build, args[1].s, 1,
                                  Linear_Expression_from(build, PyInt(0)))} } : TRUE

\* the tuple of the coefficients of x0 .. x(d-1), d the space dimension
Linear_Expression_coefficients(self) ==
    PyTuple([i \in 1..space_dimension(self.e) |-> PyInt(coefficient(self.e, i - 1))])

Linear_Expression_inhomogeneous_term(self) == PyInt(inhomogeneous_term(self.e))

\* the arguments __reduce__ hands to the class Linear_Expression
Linear_Expression__reduce__(self) ==
    <<Linear_Expression_coefficients(self), Linear_Expression_inhomogeneous_term(self)>>

Variable__repr__one_based(i) == "x" \o ToString(i + 1)

Variable__repr__(i) == "x" \o ToString(i)

\* '%+d' % n
SignedDecimal(n) == IF n >= 0 THEN "+" \o ToString(n) ELSE ToString(n)

\* the loop of __repr__ over the variables i .. d-1; s is the text so far
RECURSIVE repr_loop(_, _, _, _)
repr_loop(e, i, s, first) ==
    IF i >= space_dimension(e) THEN [s |-> s, first |-> first]
    ELSE LET coeff == coefficient(e, i)
             x == Variable__repr__(i)
         IN  IF coeff = 0 THEN repr_loop(e, i + 1, s, first)
             ELSE IF first /\ coeff = 1 THEN repr_loop(e, i + 1, s \o x, FALSE)
             ELSE IF first /\ coeff = -1 THEN repr_loop(e, i + 1, s \o "-" \o x, FALSE)
             ELSE IF first THEN
                 repr_loop(e, i + 1, s \o ToString(coeff) \o "*" \o x, FALSE)
             ELSE IF coeff = 1 THEN repr_loop(e, i + 1, s \o "+" \o x, first)
             ELSE IF coeff = -1 THEN repr_loop(e, i + 1, s \o "-" \o x, first)
             ELSE repr_loop(e, i + 1, s \o SignedDecimal(coeff) \o "*" \o x, first)

Linear_Expression__repr__(e) ==
    LET terms == repr_loop(e, 0, "", TRUE)
        inhomog == inhomogeneous_term(e)
    IN  IF inhomog # 0
        THEN IF terms.first THEN terms.s \o ToString(inhomog)
             ELSE terms.s \o SignedDecimal(inhomog)
        ELSE IF terms.first THEN "0" ELSE terms.s

Variable__add__(build, self, other) ==
    LET l == Linear_Expression_from(build, self)
        r == Linear_Expression_from(build, other)
    IN  IF IsExc(l) THEN l ELSE IF IsExc(r) THEN r
        ELSE Linear_Expression__add__(build, l, r)

Variable__sub__(build, self, other) ==
    LET l == Linear_Expression_from(build, self)
        r == Linear_Expression_from(build, other)
    IN  IF IsExc(l) THEN l ELSE IF IsExc(r) THEN r
        ELSE Linear_Expression__sub__(build, l, r)

Variable__pos__(build, self) == Linear_Expression_from(build, self)
Variable__neg__(build, self) ==
    Linear_Expression__mul__(build, Linear_Expression_from(build, self), PyInt(-1))

\* Python's choice of the method for  L op R : the left operand's type if it
\* is one of ours, else the right operand's; the method gets (L, R) in order.
BinaryOps == {"+", "-", "*"}
PyBinary(build, op, L, R) ==
    LET cls == IF IsExprType(L) THEN L.t ELSE R.t IN
    CASE cls = "Variable" /\ op = "+" -> Variable__add__(build, L, R)
      [] cls = "Variable" /\ op = "-" -> Variable__sub__(build, L, R)
      [] cls = "Variable" /\ op = "*" -> Variable__mul__(build, L, R)
      [] cls = "Linear_Expression" /\ op = "+" -> Linear_Expression__add__(build, L, R)
      [] cls = "Linear_Expression" /\ op = "-" -> Linear_Expression__sub__(build, L, R)
      [] cls = "Linear_Expression" /\ op = "*" -> Linear_Expression__mul__(build, L, R)

UnaryOps == {"+", "-"}
PyUnary(build, op, v) ==
    CASE v.t = "Variable" /\ op = "+" -> Variable__pos__(build, v)
      [] v.t = "Variable" /\ op = "-" -> Variable__neg__(build, v)
      [] v.t = "Linear_Expression" /\ op = "+" -> Linear_Expression__pos__(build, v)
      [] v.t = "Linear_Expression" /\ op = "-" -> Linear_Expression__neg__(build, v)

(***************************************************************************)
(* Comparisons.  __richcmp__ of both classes hands over to                 *)
(* _make_Constraint_from_richcmp (constraint.pyx, declared by the cimport  *)
(* and not part of the sources at hand): both operands are converted to    *)
(* Linear_Expression and PPL's comparison operator builds the constraint.  *)
(***************************************************************************)
CmpOps == {"<", "<=", "==", ">=", ">"}
Kinds == {"EQUALITY", "NONSTRICT_INEQUALITY", "STRICT_INEQUALITY"}

_make_Constraint_from_richcmp(build, lhs_, rhs_, op) ==
    LET lhs == Linear_Expression_from(build, lhs_)
        rhs == Linear_Expression_from(build, rhs_)
    IN  IF IsExc(lhs) THEN lhs
        ELSE IF IsExc(rhs) THEN rhs
        ELSE CASE op = "<"  -> PyConstraint(PPL_sub(rhs.e, lhs.e), "STRICT_INEQUALITY")
               [] op = "<=" -> PyConstraint(PPL_sub(rhs.e, lhs.e), "NONSTRICT_INEQUALITY")
               [] op = "==" -> PyConstraint(PPL_sub(lhs.e, rhs.e), "EQUALITY")
               [] op = ">=" -> PyConstraint(PPL_sub(lhs.e, rhs.e), "NONSTRICT_INEQUALITY")
               [] op = ">"  -> PyConstraint(PPL_sub(lhs.e, rhs.e), "STRICT_INEQUALITY")

\* mutant: the operands handed over in the wrong order
Variable__richcmp__swapped(build, self, other, op) ==
    _make_Constraint_from_richcmp(build, other, self, op)
Variable__richcmp__(build, self, other, op) ==
    _make_Constraint_from_richcmp(build, self, other, op)

\* mutant: a comparison of two constants folded to its truth value
Linear_Expression__richcmp__folded(build, self, other, op) ==
    IF self.t = "Linear_Expression" /\ all_homogeneous_terms_are_zero(self.e)
       /\ other.t = "int"
    THEN PyBool(op = "==" /\ self.e.b = other.n)
    ELSE _make_Constraint_from_richcmp(build, self, other, op)
Linear_Expression__richcmp__(build, self, other, op) ==
    _make_Constraint_from_richcmp(build, self, other, op)

\* the reflected operator Python uses when only the right operand is ours
Reflected(op) ==
    CASE op = "<" -> ">" [] op = "<=" -> ">=" [] op = "==" -> "=="
      [] op = ">=" -> "<=" [] op = ">" -> "<"

\* two plain numbers n/d compared by Python itself
NumberCompare(L, R, op) ==
    LET l == L.n * R.d
        r == R.n * L.d
    IN  CASE op = "<" -> l < r [] op = "<=" -> l <= r [] op = "==" -> l = r
          [] op = ">=" -> l >= r [] op = ">" -> l > r

PyRichCompare(build, L, R, op) ==
    IF L.t = "Variable" THEN Variable__richcmp__(build, L, R, op)
    ELSE IF L.t = "Linear_Expression" THEN Linear_Expression__richcmp__(build, L, R, op)
    ELSE IF R.t = "Variable" THEN Variable__richcmp__(build, R, L, Reflected(op))
    ELSE IF R.t = "Linear_Expression"
         THEN Linear_Expression__richcmp__(build, R, L, Reflected(op))
    ELSE PyBool(NumberCompare(L, R, op))

\* inequality(expression), with its mutant that turns the comparison round
inequality_reversed(build, expression) == PyRichCompare(build, expression, PyInt(0), "<=")

inequality(build, expression) == PyRichCompare(build, expression, PyInt(0), ">=")
strict_inequality(build, expression) == PyRichCompare(build, expression, PyInt(0), ">")
equation(build, expression) == PyRichCompare(build, expression, PyInt(0), "==")

\* the methods of a Constraint that read it
Constraint_space_dimension(self) == space_dimension(self.e)
Constraint_coefficients(self) ==
    PyTuple([i \in 1..space_dimension(self.e) |-> PyInt(coefficient(self.e, i - 1))])
Constraint_inhomogeneous_term(self) == PyInt(inhomogeneous_term(self.e))
is_nonstrict_inequality(self) == self.k = "NONSTRICT_INEQUALITY"
is_strict_inequality(self) == self.k = "STRICT_INEQUALITY"
is_equality(self) == self.k = "EQUALITY"

\* thisptr.is_tautological(): the constraint holds at every point
Constraint_is_tautological(self) ==
    /\ all_homogeneous_terms_are_zero(self.e)
    /\ CASE is_equality(self) -> inhomogeneous_term(self.e) = 0
         [] is_nonstrict_inequality(self) -> inhomogeneous_term(self.e) >= 0
         [] is_strict_inequality(self) -> inhomogeneous_term(self.e) > 0

\* mutant: a strict inequality judged as if it were a non-strict one
Constraint_is_inconsistent_closed(self) ==
    /\ all_homogeneous_terms_are_zero(self.e)
    /\ IF is_equality(self) THEN inhomogeneous_term(self.e) # 0
       ELSE inhomogeneous_term(self.e) < 0

\* thisptr.is_inconsistent(): the constraint holds at no point
Constraint_is_inconsistent(self) ==
    /\ all_homogeneous_terms_are_zero(self.e)
    /\ CASE is_equality(self) -> inhomogeneous_term(self.e) # 0
         [] is_nonstrict_inequality(self) -> inhomogeneous_term(self.e) < 0
         [] is_strict_inequality(self) -> inhomogeneous_term(self.e) <= 0

Abs(n) == IF n < 0 THEN -n ELSE n

RECURSIVE gcd(_, _)
gcd(a, b) == IF b = 0 THEN a ELSE gcd(b, a % b)

RECURSIVE gcd_of(_, _)
gcd_of(co, g) == IF Len(co) = 0 THEN g ELSE gcd_of(Tail(co), gcd(Abs(Head(co)), g))

\* the expression divided by the greatest common divisor of its coefficients
\* and its inhomogeneous term
normalize(e) ==
    LET g == gcd_of(e.co, Abs(e.b))
    IN  IF g = 0 THEN e
        ELSE LinExpr([k \in 1..Len(e.co) |-> e.co[k] \div g], e.b \div g)

\* the sign of the first nonzero coefficient, 0 when there is none
RECURSIVE first_sign(_)
first_sign(co) ==
    IF Len(co) = 0 THEN 0
    ELSE IF Head(co) > 0 THEN 1
    ELSE IF Head(co) < 0 THEN -1
    ELSE first_sign(Tail(co))

\* an equality has its first nonzero coefficient made positive
sign_normalize(e) ==
    IF first_sign(e.co) < 0 THEN PPL_mul(e, -1) ELSE e

\* the form in which the native library compares the expression of a constraint
strong_normalize(self) ==
    IF is_equality(self) THEN sign_normalize(normalize(self.e)) ELSE normalize(self.e)

\* mutant: constraints of different kinds never equivalent
Constraint_is_equivalent_to_by_kind(self, c) ==
    /\ space_dimension(self.e) = space_dimension(c.e)
    /\ self.k = c.k
    /\ self.e = c.e

\* thisptr.is_equivalent_to(c): never across space dimensions; across kinds
\* only two tautologies or two inconsistent constraints; within a kind the
\* normalized expressions are compared term by term
Constraint_is_equivalent_to(self, c) ==
    IF Constraint_space_dimension(self) # Constraint_space_dimension(c) THEN FALSE
    ELSE IF self.k # c.k
    THEN IF Constraint_is_tautological(self) THEN Constraint_is_tautological(c)
         ELSE Constraint_is_inconsistent(self) /\ Constraint_is_inconsistent(c)
    ELSE strong_normalize(self) = strong_normalize(c)

\* Constraint.__reduce__: the name of the constructor and its argument
Constraint__reduce__(build, self) ==
    CHOOSE r \in {
        IF is_nonstrict_inequality(self) THEN <<"inequality", le>>
        ELSE IF is_strict_inequality(self) THEN <<"strict_inequality", le>>
        ELSE IF is_equality(self) THEN <<"equation", le>>
        ELSE <<"RuntimeError", le>>
        : le \in {Linear_Expression__cinit__(build,
                     <<Constraint_coefficients(self), Constraint_inhomogeneous_term(self)>>)}
        } : TRUE

\* the call unpickling makes with what __reduce__ returned
Constraint_rebuilt(build, state) ==
    CASE state[1] = "inequality" -> inequality(build, state[2])
      [] state[1] = "strict_inequality" -> strict_inequality(build, state[2])
      [] state[1] = "equation" -> equation(build, state[2])
      [] OTHER -> PyExc("RuntimeError")

(***************************************************************************)
(* SpecCall: the values the calls are made on.                             *)
(***************************************************************************)
Coefs == {-1, 0, 2}
Consts == {-1, 0}
RawInts == {PyInt(-1), PyInt(0), PyInt(1), PyInt(3)}
RawVals ==
    RawInts \cup
    { PyFloat(5, 2), PyFloat(2, 1), PyFloat(-5, 2), PyMpq(1, 2), PyMpq(4, 2),
      PyStr(4, 1), PyStr(0, 0), PyNone }
VariableVals == { PyVariable(i) : i \in 0..(MaxDim - 1) }
ExprVals ==
    UNION { { PyLinExpr(LinExpr(co, b)) : co \in [1..n -> Coefs], b \in Consts }
            : n \in 0..MaxDim }
Operands == RawVals \cup VariableVals \cup ExprVals
\* the constraints the calls are made on: E >= 0, E > 0 and E == 0
ConCoefs == {-1, 0, 1, 2}
ConConsts == {-1, 0, 1}
ConExprs ==
    UNION { { LinExpr(co, b) : co \in [1..n -> ConCoefs], b \in ConConsts }
            : n \in 0..MaxDim }
ConstraintVals == { PyConstraint(e, k) : e \in ConExprs, k \in Kinds }

\* the expressions that are rendered; the last is Linear_Expression([1,2,3,4], 5)
ReprVals ==
    UNION { { LinExpr(co, b) : co \in [1..n -> {-3, -1, 0, 1, 2}], b \in {-1, 0, 5} }
            : n \in 0..MaxDim }
    \cup { LinExpr(<<1, 2, 3, 4>>, 5) }

\* the integers a Variable is asked for
VariableIndexes == -2 .. (MaxDim - 1)

CoefTuples == UNION { { PyTuple(AsSeq(a)) : a \in [1..n -> RawVals] } : n \in 0..MaxDim }

NoCall == [call |-> "none", build |-> "gmpy2", op |-> "", args |-> <<>>,
           result |-> PyNone]
Called(call, build, op, args, result) ==
    [call |-> call, build |-> build, op |-> op, args |-> args, result |-> result]

Idle ==
    /\ heap = <<>> /\ nat = <<>>
    /\ cs = <<>> /\ hist = <<>>
\* a call reads and changes nothing but its arguments: one call per behaviour
\* covers them all
IdleUnchanged == UNCHANGED <<heap, nat, cs, hist>>

InitCall == ret = NoCall /\ Idle

\* Linear_Expression(), Linear_Expression(arg), Linear_Expression(a, b), and
\* a call with three arguments
CallConstruct ==
    /\ ret = NoCall
    /\ \E build \in Builds :
      \E args \in {<<>>} \cup { <<v>> : v \in Operands }
                  \cup { <<a, b>> : a \in CoefTuples, b \in RawVals }
                  \cup { <<PyInt(1), PyInt(2), PyInt(3)>> } :
        /\ ret' = Called("Linear_Expression", build, "", args,
                         Linear_Expression__cinit__(build, args))
        /\ IdleUnchanged

\* L + R, L - R, L * R with at least one Variable or Linear_Expression
CallBinary ==
    /\ ret = NoCall
    /\ \E build \in Builds, op \in BinaryOps, L \in Operands, R \in Operands :
        /\ IsExprType(L) \/ IsExprType(R)
        /\ ret' = Called("binary", build, op, <<L, R>>, PyBinary(build, op, L, R))
        /\ IdleUnchanged

\* +v, -v
CallUnary ==
    /\ ret = NoCall
    /\ \E build \in Builds, op \in UnaryOps, v \in VariableVals \cup ExprVals :
        /\ ret' = Called("unary", build, op, <<v>>, PyUnary(build, op, v))
        /\ IdleUnchanged

\* L < R, L <= R, L == R, L >= R, L > R; without a Variable or
\* Linear_Expression, on two plain numbers
CallCompare ==
    /\ ret = NoCall
    /\ \E build \in Builds, op \in CmpOps, L \in Operands, R \in Operands :
        /\ IsExprType(L) \/ IsExprType(R) \/ (IsNumber(L) /\ IsNumber(R))
        /\ ret' = Called("richcmp", build, op, <<L, R>>, PyRichCompare(build, L, R, op))
        /\ IdleUnchanged

\* E.is_zero()
CallIsZero ==
    /\ ret = NoCall
    /\ \E build \in Builds, E \in ExprVals :
        /\ ret' = Called("is_zero", build, "", <<E>>, PyBool(is_zero(E.e)))
        /\ IdleUnchanged

\* (L - R).is_zero()
CallIsZeroOfDifference ==
    /\ ret = NoCall
    /\ \E build \in Builds, L \in ExprVals, R \in ExprVals :
       \E D \in {Linear_Expression__sub__(build, L, R)} :
        /\ ret' = Called("is_zero", build, "-", <<L, R>>, PyBool(is_zero(D.e)))
        /\ IdleUnchanged

\* E.set_space_dimension(n); the result recorded is E after the call
CallSetSpaceDimension ==
    /\ ret = NoCall
    /\ \E E \in ExprVals, n \in 0..(MaxDim + 1) :
        /\ ret' = Called("set_space_dimension", "gmpy2", "", <<E, PyInt(n)>>,
                         PyLinExpr(PPL_set_space_dimension(E.e, n)))
        /\ IdleUnchanged

\* Linear_Expression(*E.__reduce__()[1]): what unpickling E builds
CallReduce ==
    /\ ret = NoCall
    /\ \E build \in Builds, E \in ExprVals :
        \E state \in {Linear_Expression__reduce__(E)} :
          /\ ret' = Called("__reduce__", build, "", <<E>>,
                           Linear_Expression__cinit__(build, state))
          /\ IdleUnchanged

\* constructor(le) for (constructor, (le,)) = c.__reduce__()
CallConstraintReduce ==
    /\ ret = NoCall
    /\ \E build \in Builds, c \in ConstraintVals :
        \E state \in {Constraint__reduce__(build, c)} :
          /\ ret' = Called("Constraint.__reduce__", build, state[1], <<c>>,
                           Constraint_rebuilt(build, state))
          /\ IdleUnchanged

\* (c.is_tautological(), c.is_inconsistent())
CallIsTautologicalIsInconsistent ==
    /\ ret = NoCall
    /\ \E c \in ConstraintVals :
        /\ ret' = Called("is_tautological, is_inconsistent", "gmpy2", "", <<c>>,
                         PyTuple(<<PyBool(Constraint_is_tautological(c)),
                                   PyBool(Constraint_is_inconsistent(c))>>))
        /\ IdleUnchanged

\* c.is_equivalent_to(d)
CallIsEquivalentTo ==
    /\ ret = NoCall
    /\ \E c \in ConstraintVals, d \in ConstraintVals :
        /\ ret' = Called("is_equivalent_to", "gmpy2", "", <<c, d>>,
                         PyBool(Constraint_is_equivalent_to(c, d)))
        /\ IdleUnchanged

\* repr(E)
CallRepr ==
    /\ ret = NoCall
    /\ \E e \in ReprVals :
        /\ ret' = Called("__repr__", "gmpy2", "", <<PyLinExpr(e)>>,
                         PyText(Linear_Expression__repr__(e)))
        /\ IdleUnchanged

\* v = Variable(a); (v.id(), v.space_dimension(), Linear_Expression(v))
CallVariable ==
    /\ ret = NoCall
    /\ \E build \in Builds, a \in VariableIndexes :
        \E v \in {Variable__cinit__(PyInt(a))} :
          /\ ret' = Called("Variable", build, "", <<PyInt(a)>>,
                       IF IsExc(v) THEN v
                       ELSE PyTuple(<<PyInt(Variable_id(v)),
                                      PyInt(Variable_space_dimension(v)),
                                      Linear_Expression__cinit__(build, <<v>>)>>))
          /\ IdleUnchanged

NextCall ==
    \/ CallConstruct
    \/ CallBinary
    \/ CallUnary
    \/ CallCompare
    \/ CallIsZero
    \/ CallIsZeroOfDifference
    \/ CallSetSpaceDimension
    \/ CallReduce
    \/ CallConstraintReduce
    \/ CallIsTautologicalIsInconsistent
    \/ CallIsEquivalentTo
    \/ CallRepr
    \/ CallVariable
SpecCall == InitCall /\ [][NextCall]_vars

(***************************************************************************)
(* Spec: a Python session.  A wrapper object has a class, thisptr (the     *)
(* address of its native object, 0: NULL) and a count of the references    *)
(* held to it; it is deallocated when the last reference goes.  Object     *)
(* ids are handed out lowest-free-first and are reused; new hands out the  *)
(* free address numbered as the object it is called for.                   *)
(* The temporaries an operator makes (Linear_Expression(other), ...) are   *)
(* created and deallocated within the call and leave no trace.             *)
(***************************************************************************)
ObjIds == 1..MaxObj
Addrs == 1..MaxObj
NULL == 0

NV(n, e, k, ids) == [n |-> n, e |-> e, k |-> k, ids |-> ids]
NoValue == NV(0, PPL_Linear_Expression, "", {})
NoObject == [cls |-> "", thisptr |-> NULL, refs |-> 0]

\* the values the session is run on
SessionVarIds == {0}
SessionInts == {1}
SessionDims == 0..1
SessionExprs ==
    UNION { { LinExpr(co, b) : co \in [1..n -> {0, 1}], b \in {0, 1} } :
            n \in SessionDims }

Ref(o) == PV("ref", o, 1, PPL_Linear_Expression, "", <<>>)

Live(o) == heap[o].cls # ""
FreeObjs == { o \in ObjIds : ~Live(o) }
LowestOf(S) == CHOOSE x \in S : \A y \in S : x <= y
Native(o) == nat[heap[o].thisptr].v

\* the Python value an object is, as an operand
ValueOf(o) ==
    CASE heap[o].cls = "Variable" -> PyVariable(Native(o).n)
      [] heap[o].cls = "Linear_Expression" -> PyLinExpr(Native(o).e)
      [] OTHER -> PV(heap[o].cls, 0, 0, PPL_Linear_Expression, "", <<>>)
\* an argument as written (a reference to an object, or a literal) and its value
ArgValue(a) == IF a.t = "ref" THEN ValueOf(a.n) ELSE a
ArgValues(args) == [i \in 1..Len(args) |-> ArgValue(args[i])]

InitSession ==
    /\ ret = NoCall
    /\ heap = [o \in ObjIds |-> NoObject]
    /\ nat = [h \in Addrs |-> [live |-> FALSE, v |-> NoValue]]
    /\ cs = <<>> /\ hist = <<>>

\* self.thisptr = new ...(v) in the __cinit__ of a new object
Construct(cls, v) ==
    LET o == LowestOf(FreeObjs)
    IN  /\ ~nat[o].live
        /\ heap' = [heap EXCEPT ![o] = [cls |-> cls, thisptr |-> o, refs |-> 1]]
        /\ nat' = [nat EXCEPT ![o] = [live |-> TRUE, v |-> v]]

\* a new object whose __cinit__ leaves thisptr as allocated: NULL
ConstructNull(cls) ==
    LET o == LowestOf(FreeObjs)
    IN  /\ heap' = [heap EXCEPT ![o] = [cls |-> cls, thisptr |-> NULL, refs |-> 1]]
        /\ UNCHANGED nat

\* the call raised: no object is handed out, nothing stays allocated
Raised == UNCHANGED <<heap, nat>>

LiveRefs == { Ref(o) : o \in { x \in ObjIds : Live(x) } }
ExprRefs == { r \in LiveRefs : heap[r.n].cls \in {"Variable", "Linear_Expression"} }
\* the object a call is about to create
NewObj == Ref(LowestOf(FreeObjs))

\* Variable(i)
NewVariable ==
    /\ FreeObjs # {}
    /\ \E i \in SessionVarIds :
        /\ Construct("Variable", NV(i, PPL_Linear_Expression, "", {}))
        /\ ret' = Called("Variable", "gmpy2", "", <<PyInt(i)>>, NewObj)
        /\ UNCHANGED <<cs, hist>>

\* Variables_Set(*args): no branch for three or more arguments
NewVariables_Set ==
    /\ FreeObjs # {}
    /\ \E args \in UNION { [1..n -> LiveRefs] : n \in 0..3 } :
        LET vals == ArgValues(args)
            bad == \E k \in 1..Min(Len(args), 2) : vals[k].t # "Variable"
            ids == CASE Len(args) = 0 -> {}
                     [] Len(args) = 1 -> {vals[1].n}
                     [] OTHER -> vals[1].n .. vals[2].n
        IN  /\ IF Len(args) >= 3 THEN ConstructNull("Variables_Set")
               ELSE IF bad THEN Raised
               ELSE Construct("Variables_Set",
                              NV(0, PPL_Linear_Expression, "", ids))
            /\ ret' = Called("Variables_Set", "gmpy2", "", args,
                             IF Len(args) < 3 /\ bad THEN PyExc("TypeError")
                             ELSE NewObj)
            /\ UNCHANGED <<cs, hist>>

SessionTuples ==
    UNION { { PyTuple(AsSeq(a)) : a \in [1..n -> { PyInt(c) : c \in SessionInts }] } :
            n \in SessionDims }
Linear_ExpressionArgs ==
    {<<>>} \cup { <<a>> : a \in LiveRefs \cup { PyInt(c) : c \in SessionInts } }
           \cup { <<t, PyInt(b)>> : t \in SessionTuples, b \in SessionInts }
           \cup { <<PyInt(0), PyInt(0), PyInt(0)>> }

\* Linear_Expression(*args)
NewLinear_Expression ==
    /\ FreeObjs # {}
    /\ \E args \in Linear_ExpressionArgs :
        \E vals \in {ArgValues(args)} :
        \E result \in {Linear_Expression__cinit__("gmpy2", vals)} :
            /\ IsExc(result) \/ result.e \in SessionExprs
            /\ IF IsExc(result) THEN Raised
               ELSE Construct("Linear_Expression", NV(0, result.e, "", {}))
            /\ ret' = Called("Linear_Expression", "gmpy2", "", args,
                             IF IsExc(result) THEN result ELSE NewObj)
            /\ UNCHANGED <<cs, hist>>

SessionOperands == ExprRefs \cup { PyInt(c) : c \in SessionInts }
\* the session compares Variables, with each other and with 0
SessionComparands == { r \in ExprRefs : heap[r.n].cls = "Variable" } \cup {PyInt(0)}

\* L op R
Binary ==
    /\ FreeObjs # {}
    /\ \E op \in BinaryOps, L \in SessionOperands, R \in SessionOperands :
        /\ L.t = "ref" \/ R.t = "ref"
        /\ \E lhs \in {ArgValue(L)}, rhs \in {ArgValue(R)} :
           \E result \in {PyBinary("gmpy2", op, lhs, rhs)} :
            /\ IsExc(result) \/ result.e \in SessionExprs
            /\ IF IsExc(result) THEN Raised
               ELSE Construct("Linear_Expression", NV(0, result.e, "", {}))
            /\ ret' = Called("binary", "gmpy2", op, <<L, R>>,
                             IF IsExc(result) THEN result ELSE NewObj)
            /\ UNCHANGED <<cs, hist>>

\* whether the unary operator hands back its operand (return self)
ReturnsSelf(cls, op) == cls = "Linear_Expression" /\ op = "+"

\* op x
Unary ==
    \E op \in UnaryOps, x \in ExprRefs :
        \E self \in {ValueOf(x.n)} :
        \E result \in {PyUnary("gmpy2", op, self)} :
            /\ IF ReturnsSelf(heap[x.n].cls, op)
               THEN /\ heap[x.n].refs < MaxRefs
                    /\ heap' = [heap EXCEPT ![x.n].refs = @ + 1]
                    /\ UNCHANGED nat
                    /\ ret' = Called("unary", "gmpy2", op, <<x>>, x)
               ELSE /\ FreeObjs # {}
                    /\ result.e \in SessionExprs
                    /\ Construct("Linear_Expression", NV(0, result.e, "", {}))
                    /\ ret' = Called("unary", "gmpy2", op, <<x>>, NewObj)
            /\ UNCHANGED <<cs, hist>>

\* x.set_space_dimension(n): changes the native object of x in place
SetSpaceDimension ==
    \E x \in ExprRefs, n \in SessionDims :
        LET h == heap[x.n].thisptr
            e == PPL_set_space_dimension(nat[h].v.e, n)
        IN  /\ heap[x.n].cls = "Linear_Expression"
            /\ e \in SessionExprs
            /\ nat' = [nat EXCEPT ![h].v.e = e]
            /\ ret' = Called("set_space_dimension", "gmpy2", "",
                             <<x, PyInt(n)>>, PyNone)
            /\ UNCHANGED <<heap, cs, hist>>

\* c = Constraint(True); c.thisptr = new PPL_Constraint(...); return c
_wrap_Constraint(e, k) == Construct("Constraint", NV(0, e, k, {}))

\* L op R
Compare ==
    /\ FreeObjs # {}
    /\ \E op \in CmpOps, L \in SessionComparands, R \in SessionComparands :
        /\ L.t = "ref" \/ R.t = "ref"
        /\ \E lhs \in {ArgValue(L)}, rhs \in {ArgValue(R)} :
           \E result \in {PyRichCompare("gmpy2", lhs, rhs, op)} :
            /\ IsExc(result) \/ result.e \in SessionExprs
            /\ IF IsExc(result) THEN Raised
               ELSE _wrap_Constraint(result.e, result.k)
            /\ ret' = Called("compare", "gmpy2", op, <<L, R>>,
                             IF IsExc(result) THEN result ELSE NewObj)
            /\ UNCHANGED <<cs, hist>>

\* Constraint.__cinit__(self, do_not_construct_manually=False)
ConstraintArgs == { <<>>, <<PyBool(FALSE)>>, <<PyBool(TRUE)>>, <<PyInt(0)>>,
                    <<PyInt(1)>>, <<PyNone>> }
Truth(v) == v.t \notin {"NoneType", "exc"} /\ v.n # 0
Constraint__cinit__(args) ==
    IF Truth(IF Len(args) = 0 THEN PyBool(FALSE) ELSE args[1])
    THEN PyNone ELSE PyExc("AssertionError")

\* Constraint(*args), called directly
NewConstraint ==
    /\ FreeObjs # {}
    /\ \E args \in ConstraintArgs :
        \E result \in {Constraint__cinit__(args)} :
            /\ IF IsExc(result) THEN Raised ELSE ConstructNull("Constraint")
            /\ ret' = Called("Constraint", "gmpy2", "", args,
                             IF IsExc(result) THEN result ELSE NewObj)
            /\ UNCHANGED <<cs, hist>>

\* __dealloc__ of object o: del self.thisptr (a no-op on NULL); the
\* Constraint asserts thisptr != NULL first and gives up when it is
dealloc_result(o) ==
    IF heap[o].cls = "Constraint" /\ heap[o].thisptr = NULL
    THEN PyExc("AssertionError") ELSE PyNone
dealloc_nat(o) ==
    IF heap[o].thisptr = NULL THEN nat
    ELSE [nat EXCEPT ![heap[o].thisptr] = [live |-> FALSE, v |-> NoValue]]

\* a reference to o is dropped: the object goes with its last reference
Del ==
    \E o \in ObjIds :
        /\ Live(o)
        /\ IF heap[o].refs = 1
           THEN /\ heap' = [heap EXCEPT ![o] = NoObject]
                /\ nat' = dealloc_nat(o)
                /\ ret' = Called("del", "gmpy2", heap[o].cls, <<>>,
                                 dealloc_result(o))
           ELSE /\ heap' = [heap EXCEPT ![o].refs = @ - 1]
                /\ UNCHANGED nat
                /\ ret' = Called("del", "gmpy2", heap[o].cls, <<>>, PyNone)
        /\ UNCHANGED <<cs, hist>>

\* __hash__ of the three classes that define it raises; an object of another
\* class hashes by identity
Variable__hash__(self) == PyExc("TypeError")
Linear_Expression__hash__(self) == PyExc("TypeError")
Variables_Set__hash__by_identity(self) == PyInt(self)

Variables_Set__hash__(self) == PyExc("TypeError")
object__hash__(self) == PyInt(self)
PyHash(o) ==
    CASE heap[o].cls = "Variable" -> Variable__hash__(o)
      [] heap[o].cls = "Linear_Expression" -> Linear_Expression__hash__(o)
      [] heap[o].cls = "Variables_Set" -> Variables_Set__hash__(o)
      [] OTHER -> object__hash__(o)

\* hash(x)
Hash ==
    \E x \in LiveRefs :
        /\ ret' = Called("hash", "gmpy2", heap[x.n].cls, <<x>>, PyHash(x.n))
        /\ UNCHANGED <<heap, nat, cs, hist>>

NextSession ==
    \/ NewVariable
    \/ NewVariables_Set
    \/ NewLinear_Expression
    \/ Binary
    \/ Unary
    \/ SetSpaceDimension
    \/ Compare
    \/ NewConstraint
    \/ Del
    \/ Hash

Spec == InitSession /\ [][NextSession]_vars

(***************************************************************************)
(* SpecCS: one Constraint_System.  The native system is the sequence of    *)
(* its rows, all brought to the dimension of the system, and that          *)
(* dimension.  hist records what was inserted, as it was inserted.         *)
(***************************************************************************)
Con(e, k) == [e |-> e, k |-> k]
PPL_Constraint_System == [rows |-> <<>>, dim |-> 0]

\* thisptr.insert(c): dimensions are adjusted so that all the constraints of
\* the system are defined on the same vector space
PPL_cs_insert_as_is(sys, c) ==
    [rows |-> Append(sys.rows, c), dim |-> Max(sys.dim, space_dimension(c.e))]

PPL_cs_insert_set(sys, c) ==
    IF \E k \in 1..Len(sys.rows) :
            /\ sys.rows[k].k = c.k
            /\ sys.rows[k].e = PPL_set_space_dimension(c.e, sys.dim)
    THEN sys
    ELSE LET dim == Max(sys.dim, space_dimension(c.e)) IN
         [rows |-> [k \in 1..Len(sys.rows) + 1 |->
                       IF k <= Len(sys.rows)
                       THEN Con(PPL_set_space_dimension(sys.rows[k].e, dim), sys.rows[k].k)
                       ELSE Con(PPL_set_space_dimension(c.e, dim), c.k)],
          dim |-> dim]
PPL_cs_insert(sys, c) ==
    LET dim == Max(sys.dim, space_dimension(c.e)) IN
    [rows |-> [k \in 1..Len(sys.rows) + 1 |->
                  IF k <= Len(sys.rows)
                  THEN Con(PPL_set_space_dimension(sys.rows[k].e, dim), sys.rows[k].k)
                  ELSE Con(PPL_set_space_dimension(c.e, dim), c.k)],
     dim |-> dim]

\* thisptr.clear(): removes all constraints and sets the space dimension to 0
PPL_cs_clear_rows(sys) == [rows |-> <<>>, dim |-> sys.dim]
PPL_cs_clear(sys) == PPL_Constraint_System

\* thisptr.has_equalities(), has_strict_inequalities(), empty()
PPL_cs_has_equalities(sys) == \E k \in 1..Len(sys.rows) : sys.rows[k].k = "EQUALITY"
PPL_cs_has_inequalities(sys) == \E k \in 1..Len(sys.rows) : sys.rows[k].k # "EQUALITY"

PPL_cs_has_strict_inequalities(sys) ==
    \E k \in 1..Len(sys.rows) : sys.rows[k].k = "STRICT_INEQUALITY"
PPL_cs_empty(sys) == Len(sys.rows) = 0

\* the native iterator: the position of the row it stands at
init_cs_iterator(sys) == 1
is_end_cs_iterator(sys, csi) == csi > Len(sys.rows)
next_cs_iterator(sys, csi) == sys.rows[csi]

\* Constraint_System_iterator.__next__ with the iterator at csi; the
\* iterator is at csi + 1 afterwards
Constraint_System_iterator__next__(sys, csi) ==
    IF is_end_cs_iterator(sys, csi) THEN PyExc("StopIteration")
    ELSE PyConstraint(next_cs_iterator(sys, csi).e, next_cs_iterator(sys, csi).k)

\* what a pass of the iterator from csi yields: [c for c in self]
RECURSIVE yielded_from(_, _)
yielded_from(sys, csi) ==
    LET c == Constraint_System_iterator__next__(sys, csi) IN
    IF IsExc(c) THEN <<>> ELSE <<c>> \o yielded_from(sys, csi + 1)

\* mutant: a new iterator stands at the second row
Constraint_System__iter__second(sys) == init_cs_iterator(sys) + 1

\* iter(self)
Constraint_System__iter__(sys) == init_cs_iterator(sys)

\* sum(1 for c in self)
Constraint_System__len__(sys) == Len(yielded_from(sys, Constraint_System__iter__(sys)))

\* mutant: the iterator advanced once more before the constraint is returned
Constraint_System__getitem__one_based(sys, k) ==
    IF k < 0 THEN PyExc("IndexError")
    ELSE IF \E i \in 0..(k - 1) :
                IsExc(Constraint_System_iterator__next__(sys, 1 + i))
    THEN PyExc("IndexError")
    ELSE Constraint_System_iterator__next__(sys, 1 + k + 1)

\* self[k]: k < 0 is refused; k times next() under the try, where a
\* StopIteration becomes an IndexError; then the next() that is returned
Constraint_System__getitem__(sys, k) ==
    LET iterator == Constraint_System__iter__(sys) IN
    IF k < 0 THEN PyExc("IndexError")
    ELSE IF \E i \in 0..(k - 1) :
                IsExc(Constraint_System_iterator__next__(sys, iterator + i))
    THEN PyExc("IndexError")
    ELSE Constraint_System_iterator__next__(sys, iterator + k)

\* the constraints the system is fed: x0 >= 0, x1 - 1 == 0, -1 >= 0 (of
\* dimension 0), x(MaxDim-1) > 0
CSPool ==
    { Con(LinExpr(<<1>>, 0), "NONSTRICT_INEQUALITY"),
      Con(LinExpr(<<0, 1>>, -1), "EQUALITY"),
      Con(LinExpr(<<>>, -1), "NONSTRICT_INEQUALITY"),
      Con(PPL_Linear_Expression_Variable(MaxDim - 1), "STRICT_INEQUALITY") }
Indexes == -2 .. MaxRows + 1

InitCS ==
    /\ ret = NoCall
    /\ cs = PPL_Constraint_System
    /\ hist = <<>>
    /\ heap = <<>> /\ nat = <<>>

\* cs.insert(c)
Insert ==
    /\ Len(cs.rows) < MaxRows
    /\ \E c \in CSPool :
        /\ cs' = PPL_cs_insert(cs, c)
        /\ hist' = Append(hist, c)
        /\ ret' = Called("insert", "gmpy2", "", <<PyConstraint(c.e, c.k)>>, PyNone)
    /\ UNCHANGED <<heap, nat>>

\* cs.clear()
Clear ==
    /\ cs' = PPL_cs_clear(cs)
    /\ hist' = <<>>
    /\ ret' = Called("clear", "gmpy2", "", <<>>, PyNone)
    /\ UNCHANGED <<heap, nat>>

\* cs.space_dimension()
SpaceDimension ==
    /\ ret' = Called("space_dimension", "gmpy2", "", <<>>, PyInt(cs.dim))
    /\ UNCHANGED <<cs, hist, heap, nat>>

\* len(cs)
LenCS ==
    /\ ret' = Called("__len__", "gmpy2", "", <<>>, PyInt(Constraint_System__len__(cs)))
    /\ UNCHANGED <<cs, hist, heap, nat>>

\* list(cs)
ListCS ==
    /\ ret' = Called("list", "gmpy2", "", <<>>,
                     PyTuple(yielded_from(cs, Constraint_System__iter__(cs))))
    /\ UNCHANGED <<cs, hist, heap, nat>>

\* cs[k]
GetItem ==
    \E k \in Indexes :
        /\ ret' = Called("__getitem__", "gmpy2", "", <<PyInt(k)>>,
                         Constraint_System__getitem__(cs, k))
        /\ UNCHANGED <<cs, hist, heap, nat>>

\* (cs.has_equalities(), cs.has_strict_inequalities(), cs.empty())
Predicates ==
    /\ ret' = Called("has_equalities, has_strict_inequalities, empty", "gmpy2", "", <<>>,
                     PyTuple(<<PyBool(PPL_cs_has_equalities(cs)),
                               PyBool(PPL_cs_has_strict_inequalities(cs)),
                               PyBool(PPL_cs_empty(cs))>>))
    /\ UNCHANGED <<cs, hist, heap, nat>>

NextCS ==
    \/ Insert
    \/ Clear
    \/ SpaceDimension
    \/ LenCS
    \/ ListCS
    \/ GetItem
    \/ Predicates

SpecCS == InitCS /\ [][NextCS]_vars

(***************************************************************************)
(* What a value stands for, read off the value itself: the coefficient of  *)
(* x_i and the constant of a Variable, a Linear_Expression, a number.      *)
(***************************************************************************)
ValueCoef(v, i) ==
    CASE v.t = "Variable" -> IF i = v.n THEN 1 ELSE 0
      [] v.t = "Linear_Expression" -> IF i < Len(v.e.co) THEN v.e.co[i + 1] ELSE 0
      [] OTHER -> 0
ValueConst(v) ==
    CASE v.t = "Variable" -> 0
      [] v.t = "Linear_Expression" -> v.e.b
      [] OTHER -> v.n \div v.d

\* exactly an integer: an int, an integral float or rational, a numeric string
Integral(v) == (IsNumber(v) \/ v.t = "str") /\ v.d # 0 /\ v.n % v.d = 0
NonInteger(v) == ~IsExprType(v) /\ ~Integral(v)
\* what the docstrings of both files call convertible to Linear_Expression (an
\* integer, a Variable, a Linear_Expression), and with gmpy2 also what part_000
\* says is tolerated (strings, rationals, floats that are integers)
Convertible(build, v) ==
    IsExprType(v) \/ v.t = "int" \/ (build = "gmpy2" /\ Integral(v))

\* the kind the comparison operator stands for
KindOf(op) ==
    CASE op \in {"<", ">"} -> "STRICT_INEQUALITY"
      [] op \in {"<=", ">="} -> "NONSTRICT_INEQUALITY"
      [] op = "==" -> "EQUALITY"

\* the result of the last call is the constraint  A - B  of kind k
IsConstraintOn(A, B, k) ==
    /\ ret.result.t = "Constraint"
    /\ ret.result.k = k
    /\ \A i \in 0..MaxDim :
          coefficient(ret.result.e, i) = ValueCoef(A, i) - ValueCoef(B, i)
    /\ inhomogeneous_term(ret.result.e) = ValueConst(A) - ValueConst(B)

\* a comparison was made that the claims C1 and C2 speak of
ComparedConvertible ==
    /\ ret.call = "richcmp"
    /\ IsExprType(ret.args[1]) \/ IsExprType(ret.args[2])
    /\ Convertible(ret.build, ret.args[1]) /\ Convertible(ret.build, ret.args[2])

(* C1, as claimed: for operands L, R convertible to a linear expression,
   one of them a Variable or Linear_Expression, the comparison is a
   Constraint whose kind and whose every coefficient and inhomogeneous term
   are those of the difference: R - L for < (strict) and <= (non-strict),
   L - R for == (equality), >= (non-strict) and > (strict). *)
C1_ComparisonIsDifference ==
    ComparedConvertible =>
      IF ret.op \in {"<", "<="}
      THEN IsConstraintOn(ret.args[2], ret.args[1], KindOf(ret.op))
      ELSE IsConstraintOn(ret.args[1], ret.args[2], KindOf(ret.op))

(* C1, amended: as claimed for <, <=, >=, > and for L == R with L a Variable
   or Linear_Expression; L == R with L a plain number is answered by R's
   comparison with the operands exchanged, and is the EQUALITY on R - L. *)
C1_ComparisonIsDifferenceOrReflected ==
    ComparedConvertible =>
      IF ret.op \in {"<", "<="} \/ (ret.op = "==" /\ ~IsExprType(ret.args[1]))
      THEN IsConstraintOn(ret.args[2], ret.args[1], KindOf(ret.op))
      ELSE IsConstraintOn(ret.args[1], ret.args[2], KindOf(ret.op))

\* n == e  was compared, n a plain number, and e - n is not the zero expression
C1_Witness ==
    /\ ComparedConvertible /\ ret.op = "=="
    /\ ret.args[1].t = "int" /\ ret.args[2].t = "Linear_Expression"
    /\ ret.result.t = "Constraint" /\ ret.result.k = "EQUALITY"
    /\ ~is_zero(ret.result.e)

(* C2: a comparison gives a plain boolean exactly when neither operand is a
   Variable or Linear_Expression; with one that is (and the other
   convertible) it gives a Constraint, also when no coefficient is nonzero:
   0*x == 1 and Linear_Expression(0) == 1 give -1==0, and 0 == 1 gives
   False. *)
C2_BooleanOnlyWithoutExpression ==
    ret.call = "richcmp" =>
      LET L == ret.args[1]
          R == ret.args[2]
      IN  /\ ret.result.t = "bool" <=> (~IsExprType(L) /\ ~IsExprType(R))
          /\ ((IsExprType(L) \/ IsExprType(R))
               /\ Convertible(ret.build, L) /\ Convertible(ret.build, R))
             => ret.result.t = "Constraint"
          /\ (ret.op = "==" /\ R = PyInt(1) /\ L = PyLinExpr(LinExpr(<<0>>, 0)))
             => ret.result = PyConstraint(LinExpr(<<0>>, -1), "EQUALITY")
          /\ (ret.op = "==" /\ R = PyInt(1) /\ L = PyLinExpr(LinExpr(<<>>, 0)))
             => ret.result = PyConstraint(LinExpr(<<>>, -1), "EQUALITY")
          /\ (ret.op = "==" /\ R = PyInt(1) /\ L = PyInt(0))
             => ret.result = PyBool(FALSE)

\* 0*x == 1 was compared and gave the constraint -1==0
C2_Witness ==
    /\ ret.call = "richcmp" /\ ret.op = "=="
    /\ ret.args = <<PyLinExpr(LinExpr(<<0>>, 0)), PyInt(1)>>
    /\ ret.result = PyConstraint(LinExpr(<<0>>, -1), "EQUALITY")

\* the raw values of a call: those that are neither Variable nor
\* Linear_Expression, at a constructor, an operator or a comparison
RawArgs(c) ==
    LET items == IF c.call = "Linear_Expression" /\ Len(c.args) = 2
                 THEN { c.args[1].s[i] : i \in 1..Len(c.args[1].s) } \cup { c.args[2] }
                 ELSE { c.args[i] : i \in 1..Len(c.args) }
    IN  { v \in items : ~IsExprType(v) }

(* C4: wherever a raw value meets a Variable or Linear_Expression
   (constructor argument, entry of a coefficient sequence, operand of +, -,
   *, comparison operand), a value that is not exactly an integer makes the
   call raise TypeError or ValueError and give no expression: it is never
   truncated, rounded, replaced by a default or swallowed; and an integral
   float, rational or numeric string converts to the exact integer. *)
C4_NonIntegerRaises ==
    (\/ ret.call = "Linear_Expression" /\ Len(ret.args) \in 1..2
     \/ ret.call \in {"binary", "richcmp"}
        /\ (IsExprType(ret.args[1]) \/ IsExprType(ret.args[2])))
    => /\ (\E v \in RawArgs(ret) : NonInteger(v))
          => (IsExc(ret.result) /\ ret.result.k \in {"TypeError", "ValueError"})
       /\ (ret.call = "Linear_Expression" /\ Len(ret.args) = 1 /\ Integral(ret.args[1]))
          => ret.result = PyLinExpr(LinExpr(<<>>, ret.args[1].n \div ret.args[1].d))

\* the same, of the build that converts through gmpy2 (part_000) alone
C4_NonIntegerRaises_gmpy2 == ret.build = "gmpy2" => C4_NonIntegerRaises

(***************************************************************************)
(* Claims about the session (Spec).                                        *)
(***************************************************************************)
LiveObjs == { o \in ObjIds : Live(o) }
OperatorStep == ret'.call \in {"binary", "unary"} /\ ret'.result.t = "ref"
SetDimStep == ret'.call = "set_space_dimension"

\* C5: every arithmetic operator (binary +, -, *, unary - and unary +) hands
\* out an object that did not exist before the call and leaves the objects
\* that did as they were; and set_space_dimension changes the one object it
\* is called on, an object nobody else holds a reference to, so that it
\* cannot change the operand an operator result was computed from.
C5_OperatorsArePure ==
    [][ /\ OperatorStep =>
            /\ ~Live(ret'.result.n)
            /\ \A o \in LiveObjs : heap'[o] = heap[o] /\ ValueOf(o)' = ValueOf(o)
        /\ SetDimStep =>
            /\ heap[ret'.args[1].n].refs = 1
            /\ \A o \in LiveObjs \ {ret'.args[1].n} : ValueOf(o)' = ValueOf(o)
      ]_vars

\* C6: Linear_Expression and Variables_Set called with three or more
\* arguments raise TypeError, and no object comes out of the call.
C6_WrongArityRaisesTypeError ==
    (ret.call \in {"Linear_Expression", "Variables_Set"} /\ Len(ret.args) >= 3)
        => ret.result = PyExc("TypeError")

\* C7: every live wrapper holds a non-null handle to a live native object,
\* no two wrappers hold the same handle, and no native object is left
\* without its wrapper (nothing leaks, nothing is released early).
C7_OneHandlePerWrapper ==
    /\ \A o \in LiveObjs : heap[o].thisptr # NULL /\ nat[heap[o].thisptr].live
    /\ \A o1, o2 \in LiveObjs : heap[o1].thisptr = heap[o2].thisptr => o1 = o2
    /\ \A h \in Addrs : nat[h].live => \E o \in LiveObjs : heap[o].thisptr = h

\* C8: the direct call of Constraint fails whatever the argument, and every
\* Constraint object there is carries a native constraint.
C8_DirectConstructionFails ==
    /\ ret.call = "Constraint" => IsExc(ret.result)
    /\ \A o \in LiveObjs : heap[o].cls = "Constraint" => heap[o].thisptr # NULL

(***************************************************************************)
(* Claims about the Constraint_System (SpecCS).                            *)
(***************************************************************************)
\* the constraint v read from the system is the constraint c that was
\* inserted: same kind, same coefficients, same inhomogeneous term
SameConstraint(v, c) ==
    /\ v.t = "Constraint"
    /\ v.k = c.k
    /\ inhomogeneous_term(v.e) = inhomogeneous_term(c.e)
    /\ \A i \in 0..Max(space_dimension(v.e), space_dimension(c.e)) :
            coefficient(v.e, i) = coefficient(c.e, i)
MaxOf(S) == IF S = {} THEN 0 ELSE CHOOSE x \in S : \A y \in S : x >= y
InsertedDims == { space_dimension(hist[k].e) : k \in 1..Len(hist) }

\* C3: system[k] raises IndexError for every k < 0 and every k >= len(system),
\* k == len(system) included; nothing else comes out of such a call.
C3_OutOfRangeRaisesIndexError ==
    (ret.call = "__getitem__"
        /\ (ret.args[1].n < 0 \/ ret.args[1].n >= Len(cs.rows)))
        => ret.result = PyExc("IndexError")

\* C9: a pass over the system yields the constraints inserted since its
\* creation or last clear, in the order of insertion, duplicates included,
\* and len(system) is their number.
C9_IterationIsInsertionOrder ==
    /\ ret.call = "list" =>
            /\ Len(ret.result.s) = Len(hist)
            /\ \A k \in 1..Len(hist) : SameConstraint(ret.result.s[k], hist[k])
    /\ ret.call = "__len__" => ret.result = PyInt(Len(hist))
C9_Witness ==
    /\ ret.call = "list"
    /\ Len(hist) = 3 /\ hist[1] = hist[3] /\ hist[1] # hist[2]
    /\ Len(ret.result.s) = 3

\* C10: space_dimension() of the system is the largest dimension among the
\* constraints inserted since its creation or last clear, 0 when there is none.
C10_DimensionIsMaxInserted ==
    /\ cs.dim = MaxOf(InsertedDims)
    /\ ret.call = "space_dimension" => ret.result = PyInt(MaxOf(InsertedDims))
C10_Witness ==
    /\ ret.call = "space_dimension"
    /\ Len(hist) = 2
    /\ space_dimension(hist[1].e) > space_dimension(hist[2].e)
    /\ ret.result = PyInt(space_dimension(hist[1].e))

\* C11: every constraint read from the system, by a pass or by index, has the
\* space dimension of the system and is the constraint that was inserted at
\* that place: same kind, same inhomogeneous term, same coefficients, zero
\* from its own dimension on.
C11_MembersShareSystemDimension ==
    /\ ret.call = "list" =>
            \A k \in 1..Len(ret.result.s) :
                /\ space_dimension(ret.result.s[k].e) = cs.dim
                /\ k <= Len(hist) /\ SameConstraint(ret.result.s[k], hist[k])
    /\ (ret.call = "__getitem__" /\ ret.result.t = "Constraint") =>
            /\ space_dimension(ret.result.e) = cs.dim
            /\ ret.args[1].n + 1 \in 1..Len(hist)
            /\ SameConstraint(ret.result, hist[ret.args[1].n + 1])
C11_Witness ==
    /\ ret.call = "__getitem__" /\ ret.args[1].n = 0
    /\ Len(hist) = 2
    /\ space_dimension(hist[1].e) < space_dimension(hist[2].e)
    /\ ret.result.t = "Constraint"
    /\ space_dimension(ret.result.e) = space_dimension(hist[2].e)

(***************************************************************************)
(* Claims about the arithmetic of expressions (SpecCall).                  *)
(***************************************************************************)
\* the space dimension of a Variable or Linear_Expression value
ValueDim(v) == IF v.t = "Variable" THEN v.n + 1 ELSE space_dimension(v.e)
BothExpressions == IsExprType(ret.args[1]) /\ IsExprType(ret.args[2])

\* C12: A + B (A - B) of two expressions has at every index the sum
\* (difference) of the two coefficients, a missing one counting as 0, the sum
\* (difference) of the constants, and the larger of the two space dimensions,
\* also when the highest coefficients cancel.
C12_SumIsCoefficientwise ==
    (ret.call = "binary" /\ ret.op \in {"+", "-"} /\ BothExpressions) =>
        LET A == ret.args[1]
            B == ret.args[2]
            sg == IF ret.op = "+" THEN 1 ELSE -1
        IN  /\ ret.result.t = "Linear_Expression"
            /\ space_dimension(ret.result.e) = Max(ValueDim(A), ValueDim(B))
            /\ \A i \in 0..MaxDim :
                   coefficient(ret.result.e, i) = ValueCoef(A, i) + sg * ValueCoef(B, i)
            /\ inhomogeneous_term(ret.result.e) = ValueConst(A) + sg * ValueConst(B)
C12_Witness ==
    /\ ret.call = "binary" /\ ret.op = "-" /\ BothExpressions
    /\ ValueDim(ret.args[1]) < ValueDim(ret.args[2])
    /\ ValueDim(ret.args[2]) = MaxDim
    /\ ret.result.t = "Linear_Expression"
    /\ space_dimension(ret.result.e) = MaxDim
    /\ coefficient(ret.result.e, MaxDim - 1) # 0
C12_WitnessCancelled ==
    /\ ret.call = "binary" /\ ret.op = "+" /\ BothExpressions
    /\ ValueCoef(ret.args[1], MaxDim - 1) # 0
    /\ ret.result.t = "Linear_Expression"
    /\ coefficient(ret.result.e, MaxDim - 1) = 0
    /\ space_dimension(ret.result.e) = MaxDim

\* C13: (E - E).is_zero() is True whatever the space dimension of E, and
\* is_zero() is True exactly when every coefficient and the inhomogeneous
\* term are 0, whatever the space dimension.
C13_IsZeroIgnoresDimension ==
    /\ (ret.call = "is_zero" /\ ret.op = "-" /\ ret.args[1] = ret.args[2])
            => ret.result = PyBool(TRUE)
    /\ (ret.call = "is_zero" /\ ret.op = "")
            => ret.result = PyBool(/\ ValueConst(ret.args[1]) = 0
                                   /\ \A i \in 0..MaxDim : ValueCoef(ret.args[1], i) = 0)
C13_Witness ==
    /\ ret.call = "is_zero" /\ ret.op = "-" /\ ret.args[1] = ret.args[2]
    /\ ValueDim(ret.args[1]) = MaxDim
    /\ ValueCoef(ret.args[1], MaxDim - 1) # 0
    /\ ret.result = PyBool(TRUE)

\* C14: after E.set_space_dimension(n) on an expression of dimension d the
\* space dimension is n, the coefficients below min(d, n) are as they were,
\* those from min(d, n) on are 0, and the inhomogeneous term is as it was.
C14_SetSpaceDimensionTruncatesOrExtends ==
    ret.call = "set_space_dimension" =>
        LET E == ret.args[1]
            n == ret.args[2].n
            d == ValueDim(E)
        IN  /\ ret.result.t = "Linear_Expression"
            /\ space_dimension(ret.result.e) = n
            /\ \A i \in 0..(MaxDim + 1) :
                   coefficient(ret.result.e, i) =
                       IF i < Min(d, n) THEN ValueCoef(E, i) ELSE 0
            /\ inhomogeneous_term(ret.result.e) = ValueConst(E)
C14_Witness ==
    /\ ret.call = "set_space_dimension"
    /\ ret.args[2].n = MaxDim - 1 /\ ValueDim(ret.args[1]) = MaxDim
    /\ ValueCoef(ret.args[1], MaxDim - 1) # 0
    /\ ValueCoef(ret.args[1], 0) # 0 /\ ValueConst(ret.args[1]) # 0
    /\ coefficient(ret.result.e, MaxDim - 1) = 0
    /\ coefficient(ret.result.e, 0) = ValueCoef(ret.args[1], 0)

\* a product of an expression and an integer, in either order
ScaledExpression ==
    /\ ret.call = "binary" /\ ret.op = "*"
    /\ \/ IsExprType(ret.args[1]) /\ ret.args[2].t = "int"
       \/ IsExprType(ret.args[2]) /\ ret.args[1].t = "int"
Factor == IF IsExprType(ret.args[1]) THEN ret.args[2].n ELSE ret.args[1].n
Scaled == IF IsExprType(ret.args[1]) THEN ret.args[1] ELSE ret.args[2]

\* C15: E * c and c * E, c an integer, have the coefficient c * E.coefficient(i)
\* at every index, the inhomogeneous term c * E.inhomogeneous_term() and the
\* space dimension of E; for c = 0 the result is zero and keeps the dimension.
C15_ProductScalesEveryTerm ==
    ScaledExpression =>
        /\ ret.result.t = "Linear_Expression"
        /\ space_dimension(ret.result.e) = ValueDim(Scaled)
        /\ \A i \in 0..MaxDim :
               coefficient(ret.result.e, i) = Factor * ValueCoef(Scaled, i)
        /\ inhomogeneous_term(ret.result.e) = Factor * ValueConst(Scaled)
        /\ Factor = 0 => is_zero(ret.result.e)
C15_Witness ==
    /\ ScaledExpression /\ Factor = 0 /\ ret.args[1].t = "int"
    /\ ValueDim(Scaled) = MaxDim /\ ValueCoef(Scaled, MaxDim - 1) # 0
    /\ ret.result.t = "Linear_Expression"
    /\ space_dimension(ret.result.e) = MaxDim /\ is_zero(ret.result.e)

\* C16: the product of two expressions (Variable or Linear_Expression on
\* both sides) raises an error and is never a Linear_Expression.
C16_ProductOfExpressionsFails ==
    (ret.call = "binary" /\ ret.op = "*" /\ BothExpressions) => IsExc(ret.result)
\* the same with the coefficient conversion of part_000
C16_ProductOfExpressionsFails_gmpy2 ==
    (ret.call = "binary" /\ ret.op = "*" /\ BothExpressions /\ ret.build = "gmpy2")
        => ret.result = PyExc("TypeError")

\* C17: Linear_Expression(E.coefficients(), E.inhomogeneous_term()), which is
\* what unpickling E builds, has the coefficients, the inhomogeneous term,
\* the rendering and the space dimension of E, also when the highest
\* coefficients of E are zero and when E has dimension 0.
C17_ReduceRebuildsExpression ==
    ret.call = "__reduce__" =>
        /\ ret.result.t = "Linear_Expression"
        /\ \A i \in 0..MaxDim :
              coefficient(ret.result.e, i) = coefficient(ret.args[1].e, i)
        /\ inhomogeneous_term(ret.result.e) = inhomogeneous_term(ret.args[1].e)
        /\ Linear_Expression__repr__(ret.result.e) = Linear_Expression__repr__(ret.args[1].e)
        /\ space_dimension(ret.result.e) = space_dimension(ret.args[1].e)
\* 2*x0 - 1 kept in dimension 2 is rebuilt in dimension 2 and renders "2*x0-1"
C17_Witness ==
    /\ ret.call = "__reduce__"
    /\ ret.args[1].e = LinExpr(<<2, 0>>, -1)
    /\ ret.result.e = LinExpr(<<2, 0>>, -1)
    /\ Linear_Expression__repr__(ret.result.e) = "2*x0-1"
\* the constant -1 of dimension 0 is rebuilt in dimension 0
C17_WitnessDimension0 ==
    /\ ret.call = "__reduce__"
    /\ ret.args[1].e = LinExpr(<<>>, -1)
    /\ space_dimension(ret.result.e) = 0
    /\ Linear_Expression__repr__(ret.result.e) = "-1"

(***************************************************************************)
(* Claims about constraints (SpecCall).                                    *)
(***************************************************************************)
\* C18: the constructor that c.__reduce__() names, applied to
\* Linear_Expression(c.coefficients(), c.inhomogeneous_term()), gives a
\* constraint of the kind, the coefficients, the inhomogeneous term and the
\* space dimension of c.
C18_ReduceRebuildsConstraint ==
    ret.call = "Constraint.__reduce__" =>
        /\ ret.result.t = "Constraint"
        /\ ret.result.k = ret.args[1].k
        /\ \A i \in 0..MaxDim :
              coefficient(ret.result.e, i) = coefficient(ret.args[1].e, i)
        /\ inhomogeneous_term(ret.result.e) = inhomogeneous_term(ret.args[1].e)
        /\ space_dimension(ret.result.e) = space_dimension(ret.args[1].e)
\* -x0 + 0*x1 + 1 >= 0 is rebuilt by inequality with its signs and dimension
C18_Witness ==
    /\ ret.call = "Constraint.__reduce__"
    /\ ret.op = "inequality"
    /\ ret.args[1] = PyConstraint(LinExpr(<<-1, 0>>, 1), "NONSTRICT_INEQUALITY")
    /\ ret.result = ret.args[1]

\* every coefficient of the constraint is 0
AllCoefficientsZero(c) == \A i \in 0..MaxDim : coefficient(c.e, i) = 0

\* C19: with b the inhomogeneous term, is_tautological() is True exactly when
\* all coefficients are 0 and (EQUALITY with b = 0, NONSTRICT_INEQUALITY with
\* b >= 0 or STRICT_INEQUALITY with b > 0); is_inconsistent() is True exactly
\* when all coefficients are 0 and (EQUALITY with b # 0, NONSTRICT_INEQUALITY
\* with b < 0 or STRICT_INEQUALITY with b <= 0); so a constraint with a
\* nonzero coefficient is neither and one with none is exactly one of the two.
C19_TautologicalAndInconsistent ==
    ret.call = "is_tautological, is_inconsistent" =>
        LET c == ret.args[1]
            b == inhomogeneous_term(c.e)
            tautological == ret.result.s[1]
            inconsistent == ret.result.s[2]
        IN  /\ tautological =
                 PyBool(/\ AllCoefficientsZero(c)
                        /\ \/ c.k = "EQUALITY" /\ b = 0
                           \/ c.k = "NONSTRICT_INEQUALITY" /\ b >= 0
                           \/ c.k = "STRICT_INEQUALITY" /\ b > 0)
            /\ inconsistent =
                 PyBool(/\ AllCoefficientsZero(c)
                        /\ \/ c.k = "EQUALITY" /\ b # 0
                           \/ c.k = "NONSTRICT_INEQUALITY" /\ b < 0
                           \/ c.k = "STRICT_INEQUALITY" /\ b <= 0)
            /\ ~AllCoefficientsZero(c)
                 => tautological = PyBool(FALSE) /\ inconsistent = PyBool(FALSE)
            /\ AllCoefficientsZero(c) => tautological # inconsistent
\* 0*x0 > 0 is inconsistent and not tautological
C19_Witness ==
    /\ ret.call = "is_tautological, is_inconsistent"
    /\ ret.args[1] = PyConstraint(LinExpr(<<0>>, 0), "STRICT_INEQUALITY")
    /\ ret.result.s = <<PyBool(FALSE), PyBool(TRUE)>>
\* 0*x0 + 0*x1 + 1 >= 0 is tautological and not inconsistent
C19_WitnessTautological ==
    /\ ret.call = "is_tautological, is_inconsistent"
    /\ ret.args[1] = PyConstraint(LinExpr(<<0, 0>>, 1), "NONSTRICT_INEQUALITY")
    /\ ret.result.s = <<PyBool(TRUE), PyBool(FALSE)>>

\* the terms of a constraint of dimension at most MaxDim: the inhomogeneous
\* term, then the coefficients of x0 .. x(MaxDim-1)
Terms(c) == <<inhomogeneous_term(c.e)>> \o [k \in 1..MaxDim |-> coefficient(c.e, k - 1)]

\* u is v multiplied by a nonzero number
Proportional(u, v) == \A i \in 1..Len(u), j \in 1..Len(u) : u[i] * v[j] = u[j] * v[i]

\* u is v multiplied by a positive number (u, v proportional and not zero)
SameDirection(u, v) ==
    /\ Proportional(u, v)
    /\ \E i \in 1..Len(u) : u[i] * v[i] > 0

\* the points that satisfy c are the points that satisfy d, both constraints
\* being of one space dimension: both hold nowhere, or both everywhere, or
\* they are one hyperplane, one closed or one open half-space
SameSolutionSet(c, d) ==
    IF AllCoefficientsZero(c) \/ AllCoefficientsZero(d)
    THEN /\ AllCoefficientsZero(c) /\ AllCoefficientsZero(d)
         /\ Constraint_is_tautological(c) = Constraint_is_tautological(d)
    ELSE /\ c.k = d.k
         /\ IF c.k = "EQUALITY" THEN Proportional(Terms(c), Terms(d))
            ELSE SameDirection(Terms(c), Terms(d))

IsEquivalentToCalled == ret.call = "is_equivalent_to"
DimensionsDiffer == space_dimension(ret.args[1].e) # space_dimension(ret.args[2].e)

\* C20: is_equivalent_to is False for two constraints of different space
\* dimensions, whatever their kind and terms, and True for two constraints of
\* one space dimension that have the same solution set.
C20_EquivalentIsSameDimensionAndSolutions ==
    IsEquivalentToCalled =>
        /\ DimensionsDiffer => ret.result = PyBool(FALSE)
        /\ (~DimensionsDiffer /\ SameSolutionSet(ret.args[1], ret.args[2]))
              => ret.result = PyBool(TRUE)
\* the first half alone: different space dimensions, never equivalent
C20_DifferentDimensionsNeverEquivalent ==
    (IsEquivalentToCalled /\ DimensionsDiffer) => ret.result = PyBool(FALSE)
\* True is only answered for one dimension and one solution set
C20_EquivalentOnlyIfSameSolutions ==
    (IsEquivalentToCalled /\ ret.result = PyBool(TRUE))
        => ~DimensionsDiffer /\ SameSolutionSet(ret.args[1], ret.args[2])
\* the second half for constraints with a nonzero coefficient, and for
\* constraints without one that differ in kind or agree in inhomogeneous term
C20_EquivalentWhenNotBothTrivialOfOneKind ==
    (/\ IsEquivalentToCalled
     /\ ~DimensionsDiffer
     /\ SameSolutionSet(ret.args[1], ret.args[2])
     /\ \/ ~AllCoefficientsZero(ret.args[1])
        \/ ret.args[1].k # ret.args[2].k
        \/ inhomogeneous_term(ret.args[1].e) = inhomogeneous_term(ret.args[2].e))
        => ret.result = PyBool(TRUE)
\* (x > 0).is_equivalent_to(0*y < x) is False
C20_WitnessDimensions ==
    /\ IsEquivalentToCalled
    /\ ret.args[1] = PyConstraint(LinExpr(<<1>>, 0), "STRICT_INEQUALITY")
    /\ ret.args[2] = PyConstraint(LinExpr(<<1, 0>>, 0), "STRICT_INEQUALITY")
    /\ ret.result = PyBool(FALSE)
\* (0*x >= 0).is_equivalent_to(0*x >= -1) is False, though both hold everywhere
C20_WitnessTautologies ==
    /\ IsEquivalentToCalled
    /\ ret.args[1] = PyConstraint(LinExpr(<<0>>, 0), "NONSTRICT_INEQUALITY")
    /\ ret.args[2] = PyConstraint(LinExpr(<<0>>, 1), "NONSTRICT_INEQUALITY")
    /\ ret.result = PyBool(FALSE)

BothTautological ==
    Constraint_is_tautological(ret.args[1]) /\ Constraint_is_tautological(ret.args[2])
BothInconsistent ==
    Constraint_is_inconsistent(ret.args[1]) /\ Constraint_is_inconsistent(ret.args[2])

C21_WitnessDimensions ==
    /\ IsEquivalentToCalled
    /\ ret.args[1] = PyConstraint(LinExpr(<<0>>, -1), "STRICT_INEQUALITY")
    /\ ret.args[2] = PyConstraint(LinExpr(<<0, 0>>, 1), "EQUALITY")
    /\ BothInconsistent
    /\ ret.result = PyBool(FALSE)

(***************************************************************************)
(* Claims about reading a constraint system (SpecCS).                      *)
(***************************************************************************)
\* what a fresh pass over the system yields
FreshPass(sys) == yielded_from(sys, Constraint_System__iter__(sys))

\* C22: for 0 <= k < len(system), system[k] is the k-th (0-based) constraint
\* of a fresh pass, and the lookup leaves the contents, the length and the
\* space dimension of the system as they were.
C22_GetItemIsKthOfFreshPass ==
    [][ret'.call = "__getitem__" =>
          /\ (0 <= ret'.args[1].n /\ ret'.args[1].n < Constraint_System__len__(cs))
                => ret'.result = FreshPass(cs)[ret'.args[1].n + 1]
          /\ FreshPass(cs') = FreshPass(cs)
          /\ Constraint_System__len__(cs') = Constraint_System__len__(cs)
          /\ cs'.dim = cs.dim]_vars
\* cs[2] on a system of three differing constraints is the third inserted
C22_Witness ==
    /\ ret.call = "__getitem__" /\ ret.args[1].n = 2
    /\ Len(hist) = 3 /\ hist[3] # hist[1] /\ hist[3] # hist[2]
    /\ SameConstraint(ret.result, hist[3])

\* C24: after any inserts and clears, has_equalities() is True exactly when a
\* current member is an equality, has_strict_inequalities() exactly when a
\* current member is a strict inequality, and empty() exactly when
\* len(system) = 0; a cleared system reports False, False, True.
C24_PredicatesFollowMembers ==
    ret.call = "has_equalities, has_strict_inequalities, empty" =>
        /\ ret.result.s[1] = PyBool(\E k \in 1..Len(hist) : hist[k].k = "EQUALITY")
        /\ ret.result.s[2] = PyBool(\E k \in 1..Len(hist) : hist[k].k = "STRICT_INEQUALITY")
        /\ ret.result.s[3] = PyBool(Constraint_System__len__(cs) = 0)
        /\ hist = <<>> => ret.result.s = <<PyBool(FALSE), PyBool(FALSE), PyBool(TRUE)>>
\* a system holding a non-strict inequality and an equality only
C24_Witness ==
    /\ ret.call = "has_equalities, has_strict_inequalities, empty"
    /\ Len(hist) = 2
    /\ hist[1].k = "NONSTRICT_INEQUALITY" /\ hist[2].k = "EQUALITY"
    /\ ret.result.s = <<PyBool(TRUE), PyBool(FALSE), PyBool(FALSE)>>

\* C25: hash() of a Variable, a Linear_Expression or a Variables_Set raises
\* TypeError in every state of the object and never gives a hash value.
C25_HashAlwaysRaises ==
    (ret.call = "hash" /\ ret.op \in {"Variable", "Linear_Expression", "Variables_Set"})
        => ret.result = PyExc("TypeError")
\* hash of a Variables_Set whose thisptr is NULL
C25_Witness ==
    /\ ret.call = "hash" /\ ret.op = "Variables_Set"
    /\ Live(ret.args[1].n) /\ heap[ret.args[1].n].thisptr = NULL
    /\ ret.result = PyExc("TypeError")
\* hash of a Linear_Expression that is referred to twice
C25_WitnessExpression ==
    /\ ret.call = "hash" /\ ret.op = "Linear_Expression"
    /\ Live(ret.args[1].n) /\ heap[ret.args[1].n].refs = 2
    /\ ret.result = PyExc("TypeError")

(***************************************************************************)
(* Claims about the rendering and the construction of expressions          *)
(* (SpecCall).                                                             *)
(***************************************************************************)
\* no coefficient of e below index i is nonzero: a term at i is the first
Leading(e, i) == \A j \in 0..(i - 1) : coefficient(e, j) = 0

\* the term of x_i as the claim words it: nothing for 0, the sign (omitted
\* on a positive first term), the magnitude unless it is 1, the variable
TermText(e, i) ==
    LET c == coefficient(e, i) IN
    IF c = 0 THEN ""
    ELSE (IF c < 0 THEN "-" ELSE IF Leading(e, i) THEN "" ELSE "+")
         \o (IF Abs(c) = 1 THEN "" ELSE ToString(Abs(c)) \o "*")
         \o "x" \o ToString(i)

\* the constant: nothing for 0, else signed unless it is positive and first
ConstText(e) ==
    LET b == inhomogeneous_term(e) IN
    IF b = 0 THEN ""
    ELSE (IF b < 0 THEN "-" ELSE IF Leading(e, space_dimension(e)) THEN "" ELSE "+")
         \o ToString(Abs(b))

RECURSIVE TermsText(_, _)
TermsText(e, i) ==
    IF i >= space_dimension(e) THEN "" ELSE TermText(e, i) \o TermsText(e, i + 1)

\* C26: the string of a Linear_Expression lists the terms by increasing
\* index, then the constant: no term for a zero coefficient, xi or -xi for 1
\* or -1, c*xi otherwise, an explicit sign on every term after the first, no
\* constant when it is zero, and "0" exactly when all coefficients within
\* the dimension and the constant are zero.
C26_RenderingOfExpression ==
    ret.call = "__repr__" =>
        LET e == ret.args[1].e IN
        /\ ret.result.k = "0" <=> is_zero(e)
        /\ ~is_zero(e) => ret.result.k = TermsText(e, 0) \o ConstText(e)
\* Linear_Expression([1,2,3,4], 5) renders as x0+2*x1+3*x2+4*x3+5
C26_Witness ==
    /\ ret.call = "__repr__"
    /\ ret.args[1].e = LinExpr(<<1, 2, 3, 4>>, 5)
    /\ ret.result.k = "x0+2*x1+3*x2+4*x3+5"
\* 0*x0 - x1 - 1 renders as -x1-1
C26_WitnessLeadingZero ==
    /\ ret.call = "__repr__"
    /\ ret.args[1].e = LinExpr(<<0, -1>>, -1)
    /\ ret.result.k = "-x1-1"

\* Variable(a) gave a Variable with id a and space dimension a + 1, and
\* Linear_Expression(Variable(a)) is x_a: 1 at a, 0 elsewhere, constant 0,
\* dimension a + 1
IsVariableOfIndex(a) ==
    /\ ret.result.t = "tuple"
    /\ ret.result.s[1] = PyInt(a)
    /\ ret.result.s[2] = PyInt(a + 1)
    /\ ret.result.s[3].t = "Linear_Expression"
    /\ \A i \in 0..(MaxDim + 1) :
          coefficient(ret.result.s[3].e, i) = IF i = a THEN 1 ELSE 0
    /\ inhomogeneous_term(ret.result.s[3].e) = 0
    /\ space_dimension(ret.result.s[3].e) = a + 1

\* C27 as stated: for all integers a, Variable(a).id() is a, its
\* space_dimension() is a + 1, and Linear_Expression(Variable(a)) has
\* coefficient 1 at a, 0 elsewhere, inhomogeneous term 0, dimension a + 1.
C27_VariableOfAnyInteger ==
    ret.call = "Variable" => IsVariableOfIndex(ret.args[1].n)
\* C27 amended: the same for all integers a >= 0; for a < 0 Variable(a)
\* raises OverflowError and no Variable is made.
C27_VariableOfNonNegativeInteger ==
    ret.call = "Variable" =>
        IF ret.args[1].n >= 0 THEN IsVariableOfIndex(ret.args[1].n)
        ELSE ret.result = PyExc("OverflowError")
\* Variable(MaxDim-1): the highest index the expressions here reach
C27_Witness ==
    /\ ret.call = "Variable" /\ ret.args[1].n = MaxDim - 1
    /\ IsVariableOfIndex(MaxDim - 1)
\* Variable(-1) raises
C27_WitnessNegative ==
    /\ ret.call = "Variable" /\ ret.args[1].n = -1
    /\ ret.result = PyExc("OverflowError")

(***************************************************************************)
(* SpecRefs: the Python objects that share or copy native objects.         *)
(* Constraint_System objects, their copies and the iterators over them,    *)
(* Linear_Expression objects and their copies.  heap[o] is the object: its *)
(* class, the address thisptr (csi_ptr of an iterator), its reference      *)
(* count, whether the caller still holds a name for it, the system an      *)
(* iterator keeps in self.cs, and the object it was copied from.  nat[a]   *)
(* is the native object at address a.  hist[it] remembers whether the      *)
(* system of an iterator was changed since iter(), and counts the next()   *)
(* calls made until then.                                                  *)
(***************************************************************************)
MaxIterObj == 2
MaxRefRows == 2
MaxCalls == MaxRefRows + 2
RefObjs == 1..MaxIterObj

RefObject(cls, thisptr, system, from) ==
    [cls |-> cls, thisptr |-> thisptr, refs |-> 1, held |-> TRUE, cs |-> system, from |-> from]
RefNoObject ==
    [cls |-> "", thisptr |-> NULL, refs |-> 0, held |-> FALSE, cs |-> 0, from |-> 0]

\* the native objects: a Constraint_System, a Linear_Expression, and a
\* Constraint_System::const_iterator, which stands at position csi of the
\* rows of the system at address of; once the rows it points into are gone
\* it is not valid, and store is what those rows held
NativeSystem(sys) ==
    [kind |-> "Constraint_System", sys |-> sys, e |-> PPL_Linear_Expression,
     csi |-> 0, of |-> NULL, valid |-> TRUE, store |-> <<>>]
NativeExpression(e) ==
    [kind |-> "Linear_Expression", sys |-> PPL_Constraint_System, e |-> e,
     csi |-> 0, of |-> NULL, valid |-> TRUE, store |-> <<>>]
NativeIterator(csi, of) ==
    [kind |-> "const_iterator", sys |-> PPL_Constraint_System, e |-> PPL_Linear_Expression,
     csi |-> csi, of |-> of, valid |-> TRUE, store |-> <<>>]
NoNative == [live |-> FALSE, v |-> NativeExpression(PPL_Linear_Expression)]
NoPass == [calls |-> 0, mutated |-> FALSE]

\* what the systems and the expressions are made of
RefPool ==
    { Con(LinExpr(<<1>>, 0), "NONSTRICT_INEQUALITY"),
      Con(LinExpr(<<0, 1>>, -1), "EQUALITY") }
RefExprs == { LinExpr(<<1>>, 1), LinExpr(<<0, 2>>, 0) }

IsSystem(o) == heap[o].cls = "Constraint_System"
IsIterator(o) == heap[o].cls = "Constraint_System_iterator"
IsExpression(o) == heap[o].cls = "Linear_Expression"
RefFree == { o \in RefObjs : heap[o].cls = "" /\ ~nat[o].live }
\* the native system, the native expression of an object
SystemOf(o) == nat[heap[o].thisptr].v.sys
ExpressionOf(o) == nat[heap[o].thisptr].v.e

InitRefs ==
    /\ ret = NoCall
    /\ heap = [o \in RefObjs |-> RefNoObject]
    /\ nat = [a \in RefObjs |-> NoNative]
    /\ cs = <<>>
    /\ hist = [o \in RefObjs |-> NoPass]

\* mutant: the new object points at the native object it was to copy
new_PPL_Constraint_System_aliased(fresh, src) == [at |-> src, v |-> nat[src].v]

\* new PPL_Constraint_System(gs.thisptr[0]), new PPL_Linear_Expression(e.thisptr[0]):
\* a native object of its own, at a fresh address, with the value of the other
new_PPL_Constraint_System(fresh, src) == [at |-> fresh, v |-> nat[src].v]
new_PPL_Linear_Expression(fresh, src) == [at |-> fresh, v |-> nat[src].v]

\* mutant: self.cs holds the system without owning a reference to it
Py_INCREF_borrowed(refs) == refs

\* self.cs = cs: the attribute owns a reference to the system
Py_INCREF(refs) == refs + 1

\* Constraint_System(); a session is about systems or about expressions
NewConstraint_System ==
    /\ RefFree # {}
    /\ \A p \in RefObjs : ~IsExpression(p)
    /\ \E o \in {LowestOf(RefFree)} :
        /\ heap' = [heap EXCEPT ![o] = RefObject("Constraint_System", o, 0, 0)]
        /\ nat' = [nat EXCEPT ![o] = [live |-> TRUE, v |-> NativeSystem(PPL_Constraint_System)]]
        /\ ret' = Called("Constraint_System", "gmpy2", "", <<>>, Ref(o))
    /\ UNCHANGED <<cs, hist>>

\* Constraint_System(gs)
CopyConstraint_System ==
    /\ RefFree # {}
    /\ \E gs \in RefObjs, o \in {LowestOf(RefFree)} :
        /\ IsSystem(gs) /\ heap[gs].held
        /\ \E c \in {new_PPL_Constraint_System(o, heap[gs].thisptr)} :
            /\ heap' = [heap EXCEPT ![o] = RefObject("Constraint_System", c.at, 0, gs)]
            /\ nat' = [nat EXCEPT ![c.at] = [live |-> TRUE, v |-> c.v]]
        /\ ret' = Called("Constraint_System", "gmpy2", "", <<Ref(gs)>>, Ref(o))
    /\ UNCHANGED <<cs, hist>>

\* the iterators into the rows of the system at address a lose them
Invalidated(a, h) ==
    IF nat[h].v.kind = "const_iterator" /\ nat[h].v.of = a /\ nat[h].v.valid
    THEN [nat[h] EXCEPT !.v.valid = FALSE, !.v.store = nat[a].v.sys.rows]
    ELSE nat[h]
Mutated(o) ==
    [it \in RefObjs |->
        IF IsIterator(it) /\ heap[it].cs = o
        THEN [hist[it] EXCEPT !.mutated = TRUE] ELSE hist[it]]

\* o.insert(c)
InsertInto ==
    /\ \E o \in RefObjs, c \in RefPool :
        /\ IsSystem(o) /\ heap[o].held
        /\ Len(SystemOf(o).rows) < MaxRefRows
        /\ nat' = [h \in RefObjs |->
                      IF h = heap[o].thisptr
                      THEN [nat[h] EXCEPT !.v.sys = PPL_cs_insert(SystemOf(o), c)]
                      ELSE Invalidated(heap[o].thisptr, h)]
        /\ hist' = Mutated(o)
        /\ ret' = Called("insert", "gmpy2", "", <<Ref(o), PyConstraint(c.e, c.k)>>, PyNone)
    /\ UNCHANGED <<heap, cs>>

\* o.clear()
ClearOf ==
    /\ \E o \in RefObjs :
        /\ IsSystem(o) /\ heap[o].held
        /\ nat' = [h \in RefObjs |->
                      IF h = heap[o].thisptr
                      THEN [nat[h] EXCEPT !.v.sys = PPL_cs_clear(SystemOf(o))]
                      ELSE Invalidated(heap[o].thisptr, h)]
        /\ hist' = Mutated(o)
        /\ ret' = Called("clear", "gmpy2", "", <<Ref(o)>>, PyNone)
    /\ UNCHANGED <<heap, cs>>

\* iter(o): Constraint_System_iterator(o)
Iter ==
    /\ RefFree # {}
    /\ \E o \in RefObjs, it \in {LowestOf(RefFree)} :
        /\ IsSystem(o) /\ heap[o].held
        /\ heap' = [heap EXCEPT
                      ![it] = RefObject("Constraint_System_iterator", it, o, 0),
                      ![o].refs = Py_INCREF(@)]
        /\ nat' = [nat EXCEPT ![it] =
                      [live |-> TRUE,
                       v |-> NativeIterator(Constraint_System__iter__(SystemOf(o)),
                                            heap[o].thisptr)]]
        /\ hist' = [hist EXCEPT ![it] = NoPass]
        /\ ret' = Called("__iter__", "gmpy2", "", <<Ref(o)>>, Ref(it))
    /\ UNCHANGED cs

\* what next() of an iterator that is not valid can do: find itself at the
\* end, or read the row at its position, in the rows it pointed into or in
\* the rows the system has now
StaleOutcomes(csi, store, sys) ==
    { [result |-> PyExc("StopIteration"), csi |-> csi] }
    \cup { [result |-> PyConstraint(store[k].e, store[k].k), csi |-> csi + 1]
           : k \in {csi} \cap (1..Len(store)) }
    \cup { [result |-> PyConstraint(sys.rows[k].e, sys.rows[k].k), csi |-> csi + 1]
           : k \in {csi} \cap (1..Len(sys.rows)) }
\* what next() of a valid iterator does
NextOutcomes(csi, sys) ==
    { [result |-> c, csi |-> IF IsExc(c) THEN csi ELSE csi + 1]
      : c \in {Constraint_System_iterator__next__(sys, csi)} }

\* next(it); op tells whether the system that self.cs.thisptr was read from
\* was there
NextOf ==
    /\ \E it \in RefObjs :
        /\ IsIterator(it) /\ heap[it].held
        /\ hist[it].calls < MaxCalls
        /\ \E a \in {heap[heap[it].cs].thisptr}, ni \in {nat[heap[it].thisptr].v} :
           \E there \in {a # NULL /\ nat[IF a = NULL THEN it ELSE a].live} :
           \E sys \in {IF a = NULL THEN PPL_Constraint_System ELSE nat[a].v.sys} :
           \E out \in (IF there /\ ni.valid THEN NextOutcomes(ni.csi, sys)
                       ELSE StaleOutcomes(ni.csi, ni.store, sys)) :
            /\ nat' = [nat EXCEPT ![heap[it].thisptr].v.csi = out.csi]
            /\ hist' = [hist EXCEPT ![it].calls = IF hist[it].mutated THEN @ ELSE @ + 1]
            /\ ret' = Called("__next__", "gmpy2", IF there THEN "live" ELSE "released",
                             <<Ref(it)>>, out.result)
    /\ UNCHANGED <<heap, cs>>

\* Linear_Expression(e) of a value, and of another Linear_Expression
NewExpression ==
    /\ RefFree # {}
    /\ \A p \in RefObjs : heap[p].cls \in {"", "Linear_Expression"}
    /\ \E e \in RefExprs, o \in {LowestOf(RefFree)} :
        /\ heap' = [heap EXCEPT ![o] = RefObject("Linear_Expression", o, 0, 0)]
        /\ nat' = [nat EXCEPT ![o] = [live |-> TRUE, v |-> NativeExpression(e)]]
        /\ ret' = Called("Linear_Expression", "gmpy2", "", <<PyLinExpr(e)>>, Ref(o))
    /\ UNCHANGED <<cs, hist>>

CopyLinear_Expression ==
    /\ RefFree # {}
    /\ \E e \in RefObjs, o \in {LowestOf(RefFree)} :
        /\ IsExpression(e) /\ heap[e].held
        /\ \E c \in {new_PPL_Linear_Expression(o, heap[e].thisptr)} :
            /\ heap' = [heap EXCEPT ![o] = RefObject("Linear_Expression", c.at, 0, e)]
            /\ nat' = [nat EXCEPT ![c.at] = [live |-> TRUE, v |-> c.v]]
        /\ ret' = Called("Linear_Expression", "gmpy2", "", <<Ref(e)>>, Ref(o))
    /\ UNCHANGED <<cs, hist>>

\* o.set_space_dimension(n)
SetSpaceDimensionOf ==
    /\ \E o \in RefObjs, n \in 0..MaxDim :
        /\ IsExpression(o) /\ heap[o].held
        /\ nat' = [nat EXCEPT ![heap[o].thisptr].v.e = PPL_set_space_dimension(@, n)]
        /\ ret' = Called("set_space_dimension", "gmpy2", "", <<Ref(o), PyInt(n)>>, PyNone)
    /\ UNCHANGED <<heap, cs, hist>>

\* del o: the caller's name goes; at count 0 the object is deallocated
\* (__dealloc__: del self.thisptr, delete_cs_iterator(self.csi_ptr)), and
\* then the reference self.cs of an iterator goes, which can deallocate
\* the system
DelRef ==
    /\ \E o \in RefObjs :
        /\ heap[o].cls # "" /\ heap[o].held
        /\ \E dies \in {heap[o].refs - 1 = 0}, sysobj \in {heap[o].cs} :
           \E sysdies \in {dies /\ sysobj # 0 /\ heap[IF sysobj = 0 THEN o ELSE sysobj].refs - 1 = 0} :
           \E gone \in {(IF dies THEN {o} ELSE {}) \cup (IF sysdies THEN {sysobj} ELSE {})} :
            /\ heap' = [p \in RefObjs |->
                          IF p \in gone THEN RefNoObject
                          ELSE IF p = o THEN [heap[o] EXCEPT !.held = FALSE, !.refs = @ - 1]
                          ELSE IF dies /\ p = sysobj THEN [heap[p] EXCEPT !.refs = @ - 1]
                          ELSE IF heap[p].from \in gone THEN [heap[p] EXCEPT !.from = 0]
                          ELSE heap[p]]
            /\ nat' = [a \in RefObjs |->
                          IF a \in { heap[p].thisptr : p \in gone }
                          THEN [nat[a] EXCEPT !.live = FALSE] ELSE nat[a]]
            /\ hist' = [p \in RefObjs |-> IF p \in gone THEN NoPass ELSE hist[p]]
            /\ ret' = Called("del", "gmpy2", heap[o].cls, <<Ref(o)>>, PyNone)
    /\ UNCHANGED cs

NextRefs ==
    \/ NewConstraint_System
    \/ CopyConstraint_System
    \/ InsertInto
    \/ ClearOf
    \/ Iter
    \/ NextOf
    \/ NewExpression
    \/ CopyLinear_Expression
    \/ SetSpaceDimensionOf
    \/ DelRef

SpecRefs == InitRefs /\ [][NextRefs]_vars

\* the members of a system, as next() hands them out
MemberAt(sys, k) == PyConstraint(sys.rows[k].e, sys.rows[k].k)
Members(sys) == { MemberAt(sys, k) : k \in 1..Len(sys.rows) }
\* the system the iterator it keeps
IteratedBy(it) == SystemOf(heap[it].cs)

\* C23: over a Constraint_System of length n that is not changed after
\* iter(), the k-th next() of an iterator yields the k-th constraint for
\* k <= n and raises StopIteration for every k > n; whatever other iterators
\* did, a new iterator starts from the first constraint.
C23_PassYieldsEachThenStops ==
    [][ (ret'.call = "__next__" /\ ~hist'[ret'.args[1].n].mutated) =>
            LET it == ret'.args[1].n
                k == hist'[it].calls
                sys == IteratedBy(it)
            IN  /\ k = hist[it].calls + 1
                /\ ret'.result = IF k <= Len(sys.rows) THEN MemberAt(sys, k)
                                 ELSE PyExc("StopIteration") ]_vars
\* the second next() after the last constraint of a full system
C23_Witness ==
    /\ ret.call = "__next__" /\ ret.result = PyExc("StopIteration")
    /\ ~hist[ret.args[1].n].mutated
    /\ Len(IteratedBy(ret.args[1].n).rows) = MaxRefRows
    /\ hist[ret.args[1].n].calls = MaxRefRows + 2
\* the last constraint of a full system is yielded
C23_WitnessLast ==
    /\ ret.call = "__next__" /\ ~hist[ret.args[1].n].mutated
    /\ hist[ret.args[1].n].calls = MaxRefRows
    /\ Len(IteratedBy(ret.args[1].n).rows) = MaxRefRows
    /\ ret.result = MemberAt(IteratedBy(ret.args[1].n), MaxRefRows)
    /\ MemberAt(IteratedBy(ret.args[1].n), 1) # ret.result

\* C28: after insert() or clear() on the system of an iterator, every
\* next() of that iterator raises StopIteration or yields a constraint the
\* system has now; after clear() that is StopIteration.
C28_NextAfterMutationYieldsMemberOrStops ==
    [][ (ret'.call = "__next__" /\ hist[ret'.args[1].n].mutated) =>
            \/ ret'.result = PyExc("StopIteration")
            \/ ret'.result \in Members(IteratedBy(ret'.args[1].n)) ]_vars

\* C29: while an iterator is alive the system in its self.cs is an object
\* with a reference count of at least 1 whose native system is allocated,
\* and is the one the native iterator points into, also when the caller
\* holds no name for the system; no next() reads a released system.
C29_IteratorKeepsSystemAlive ==
    /\ \A it \in RefObjs : IsIterator(it) =>
          /\ IsSystem(heap[it].cs)
          /\ heap[heap[it].cs].refs >= 1
          /\ heap[heap[it].cs].thisptr # NULL
          /\ nat[heap[heap[it].cs].thisptr].live
          /\ nat[heap[it].thisptr].live
          /\ nat[heap[it].thisptr].v.of = heap[heap[it].cs].thisptr
    /\ ret.call = "__next__" => ret.op = "live"
\* next() yielded from a system the caller has dropped
C29_Witness ==
    /\ ret.call = "__next__" /\ ret.result.t = "Constraint"
    /\ IsIterator(ret.args[1].n)
    /\ ~heap[heap[ret.args[1].n].cs].held
    /\ heap[heap[ret.args[1].n].cs].refs = 1

\* p is the copy of o or o is the copy of p
CopyPair(o, p) ==
    /\ o # p /\ heap[o].cls = heap[p].cls
    /\ heap[o].cls \in {"Constraint_System", "Linear_Expression"}
    /\ (heap[p].from = o \/ heap[o].from = p)

\* C30: insert() and clear() on a system, set_space_dimension() on an
\* expression, leave the native value of its copy, and of the object it is
\* the copy of, as it was.
C30_CopiesAreIndependent ==
    [][ ret'.call \in {"insert", "clear", "set_space_dimension"} =>
            \A p \in RefObjs : CopyPair(ret'.args[1].n, p) =>
                /\ heap'[p] = heap[p]
                /\ nat'[heap'[p].thisptr] = nat[heap[p].thisptr] ]_vars
\* a copy was inserted into and now differs from the system it was made from
C30_Witness ==
    /\ ret.call = "insert"
    /\ \E p \in RefObjs :
          /\ CopyPair(ret.args[1].n, p) /\ heap[ret.args[1].n].from = p
          /\ Len(SystemOf(p).rows) = 1
          /\ Len(SystemOf(ret.args[1].n).rows) = 2
\* the system a copy was made from was cleared, the copy keeps the rows
C30_WitnessOriginal ==
    /\ ret.call = "clear"
    /\ \E p \in RefObjs :
          /\ CopyPair(ret.args[1].n, p) /\ heap[p].from = ret.args[1].n
          /\ Len(SystemOf(p).rows) = MaxRefRows
          /\ Len(SystemOf(ret.args[1].n).rows) = 0
\* set_space_dimension on one of an expression and its copy
C30_WitnessExpression ==
    /\ ret.call = "set_space_dimension"
    /\ \E p \in RefObjs :
          /\ CopyPair(ret.args[1].n, p)
          /\ space_dimension(ExpressionOf(p)) # space_dimension(ExpressionOf(ret.args[1].n))
====
